---------------------------- MODULE Spec2Model ----------------------------
(***************************************************************************)
(* A model of MetalHeat3D: the Solution grid container, the host solver    *)
(* HeatEquation, the device engine MetalHeatEquation with its four Metal   *)
(* kernels, and the FunctionParser front end.                              *)
(*                                                                         *)
(* Arithmetic is exact.  Field values are integers; a physical coordinate  *)
(* i*dx with dx = 1/nx is the rational <<i, nx>>; a division by dx2 =      *)
(* 1/nx^2 is the multiplication by nx^2.  dt is a positive integer, which  *)
(* the configuration reader accepts (the CFL check only prints a warning). *)
(* static_cast<float> keeps an integer below 2^24 and rounds a larger one  *)
(* to a 24 bit significand.                                                *)
(***************************************************************************)
EXTENDS Integers, Naturals, Sequences, FiniteSets, TLC

VARIABLES
    params,     \* the Parameters record shared by the engines
    f,          \* the force function f(x,y,z,t)
    g,          \* the initial/boundary function g(x,y,z)
    heap,       \* storage of every std::vector<double>: id -> contents
    solA,       \* a Solution object (Solution API specification)
    solB,       \* a second Solution object built from the same Parameters
    hist,       \* the last calls made on solA/solB, each with its pre-state
    cpu,        \* the HeatEquation object (host path)
    gpu,        \* the MetalHeatEquation object (device path), host members
    mtl,        \* contents of every MTL::Buffer: id -> contents
    red,        \* a stand-alone dispatch of reduce_variation_kernel
    parser,     \* one call of FunctionParser::parseFile
    loader,     \* one call of ShaderLoader::loadShaders
    eng         \* one MetalHeatEquation object, the calls it makes on Metal

vars == <<params, f, g, heap, solA, solB, hist, cpu, gpu, mtl, red, parser, loader, eng>>

(***************************************************************************)
(* Bounds of the model.                                                    *)
(***************************************************************************)
MaxN      == 3      \* nx, ny, nz of the engines range over MinN..MaxN
MaxNSol   == 2      \* nx, ny, nz of the Solution API range over 1..MaxNSol
MaxDt     == 1      \* dt ranges over 1..MaxDt
MaxC      == 1      \* constant initial conditions c range over 0..MaxC
MaxIter   == 2      \* max_iterations ranges over 0..MaxIter
MaxOps    == 3      \* calls made on the two Solution objects

MinN      == 2      \* smallest grid with an interior point on the host path
Sentinel  == 99     \* the value written through operator()

NoValue == "unused"

(***************************************************************************)
(* Helpers.                                                                *)
(***************************************************************************)
Abs(v) == IF v < 0 THEN -v ELSE v

Zeros(n) == [o \in 0..(n - 1) |-> 0]

(***************************************************************************)
(* Parameters (parameters.hpp).                                            *)
(***************************************************************************)
\* readFromFile + computeSpatialSteps; n_tot = (n_x+1)*(n_y+1)*(n_z+1)
Parameters(nx, ny, nz, dt, maxit) ==
    [n_x |-> nx, n_y |-> ny, n_z |-> nz,
     n_tot |-> (nx + 1) * (ny + 1) * (nz + 1),
     dt |-> dt, max_iterations |-> maxit]

getNtot(p) == p.n_tot

\* dx = 1.0 / n_x, as a rational
getDx(p) == <<1, p.n_x>>
getDy(p) == <<1, p.n_y>>
getDz(p) == <<1, p.n_z>>
\* dx2 = dx * dx
getDx2(p) == <<1, p.n_x * p.n_x>>
getDy2(p) == <<1, p.n_y * p.n_y>>
getDz2(p) == <<1, p.n_z * p.n_z>>

\* i * dx
Times(i, q) == <<i * q[1], q[2]>>
\* v / q for a rational q with numerator 1
DivBy(v, q) == (v * q[2]) \div q[1]

(***************************************************************************)
(* The user functions (cond_ini.hpp, force.hpp): g(x,y,z) and f(x,y,z,t),  *)
(* over rational coordinates.                                              *)
(***************************************************************************)
IsOne(q)  == q[1] = q[2]
IsZero(q) == q[1] = 0

GSet == {<<"const", c>> : c \in 0..MaxC} \cup {<<"corner", 1>>, <<"bump", 1>>}
FSet == {"zero", "one", "time"}

Inside(q) == 0 < q[1] /\ q[1] < q[2]

\* g: a constant, 1 at the corner (1,0,0) only, or 1 strictly inside the
\* unit cube and 0 on its faces
ApplyG(gg, x, y, z) ==
    CASE gg[1] = "const"  -> gg[2]
      [] gg[1] = "corner" -> IF IsOne(x) /\ IsZero(y) /\ IsZero(z) THEN 1 ELSE 0
      [] gg[1] = "bump"   -> IF Inside(x) /\ Inside(y) /\ Inside(z) THEN 1 ELSE 0

\* f: identically 0, identically 1, or the simulation time
ApplyF(ff, x, y, z, t) ==
    CASE ff = "zero" -> 0
      [] ff = "one"  -> 1
      [] ff = "time" -> t

(***************************************************************************)
(* Solution (solution.hpp, solution.cpp).  A Solution holds its grid sizes *)
(* and owns one vector, heap[s.data].                                      *)
(***************************************************************************)
\* Solution::Solution: nx(params.getNx()), ..., data.resize(params.getNtot())
Solution(p, id) == [nx |-> p.n_x, ny |-> p.n_y, nz |-> p.n_z,
                    dx |-> getDx(p), dy |-> getDy(p), dz |-> getDz(p),
                    size |-> getNtot(p), data |-> id]

\* the flattening of operator(): i + nx * (j + ny * k)
Index(s, i, j, k) == i + s.nx * (j + s.ny * k)

\* const operator(): data[i + nx * (j + ny * k)]
Read(h, s, i, j, k) == h[s.data][Index(s, i, j, k)]

\* operator() used as an lvalue
Write(h, s, i, j, k, v) == [h EXCEPT ![s.data][Index(s, i, j, k)] = v]

\* the index triples 0<=i<=nx, 0<=j<=ny, 0<=k<=nz
Points(s) == (0..s.nx) \X (0..s.ny) \X (0..s.nz)

\* the p-th triple visited by for k { for j { for i } } over the full range
LoopPoint(s, p) == <<p % (s.nx + 1),
                     (p \div (s.nx + 1)) % (s.ny + 1),
                     p \div ((s.nx + 1) * (s.ny + 1))>>

NumPoints(s) == (s.nx + 1) * (s.ny + 1) * (s.nz + 1)

\* the loops of Solution::initialize(g) over the points lo..hi of the loop
\* order, one after the other (the range is halved, and the first half is
\* evaluated before the second, to keep the evaluation shallow; the order of
\* the writes is that of the loops)
RECURSIVE InitializeLoop(_, _, _, _, _)
InitializeLoop(h, s, gg, lo, hi) ==
    IF lo > hi THEN h
    ELSE IF lo = hi
    THEN LET t == LoopPoint(s, lo)
             v == ApplyG(gg, Times(t[1], s.dx), Times(t[2], s.dy), Times(t[3], s.dz))
         IN  Write(h, s, t[1], t[2], t[3], v)
    ELSE LET mid   == (lo + hi) \div 2
             first == InitializeLoop(h, s, gg, lo, mid)
         IN  IF DOMAIN first = DOMAIN h
             THEN InitializeLoop(first, s, gg, mid + 1, hi)
             ELSE first

\* Solution::initialize(std::function g)
initialize(h, s, gg) == InitializeLoop(h, s, gg, 0, NumPoints(s) - 1)

\* a faulty swap that assigns instead of exchanging: both objects end up
\* owning the storage of b
swap_Assign(a, b) == <<[a EXCEPT !.data = b.data], b>>

\* a.swap(b): data.swap(other.data); the pair <<a, b>> after the call
swap(a, b) == <<[a EXCEPT !.data = b.data], [b EXCEPT !.data = a.data]>>

(***************************************************************************)
(* Specification of the Solution API: two Solution objects built from one  *)
(* Parameters record, then any MaxOps calls of initialize, operator() =    *)
(* and swap.                                                               *)
(***************************************************************************)
Snapshot(op) == [op |-> op, a |-> solA, b |-> solB, heap |-> heap]

Push(op) == IF Len(hist) < 2 THEN <<Snapshot(op)>> \o hist
            ELSE <<Snapshot(op), hist[1]>>

Calls == IF hist = <<>> THEN 0 ELSE hist[1].op.n

UnusedEngines == /\ f = NoValue /\ g = NoValue /\ cpu = NoValue
                 /\ gpu = NoValue /\ mtl = NoValue

InitSolution ==
    /\ \E nx \in 1..MaxNSol, ny \in 1..MaxNSol, nz \in 1..MaxNSol :
          params = Parameters(nx, ny, nz, 1, 0)
    /\ solA = Solution(params, 1)
    /\ solB = Solution(params, 2)
    /\ heap = [id \in {1, 2} |-> Zeros(getNtot(params))]
    /\ hist = <<>>
    /\ UnusedEngines
    /\ red = NoValue
    /\ parser = NoValue
    /\ loader = NoValue
    /\ eng = NoValue

Target(w) == IF w = "a" THEN solA ELSE solB

\* the points the model writes through operator(): the origin and the two
\* ends of the first grid line
WritePoints(s) == {<<0, 0, 0>>, <<s.nx, 0, 0>>, <<0, 1, 0>>}

SolInitialize ==
    \E w \in {"a", "b"}, gg \in {<<"const", 1>>, <<"corner", 1>>} :
        /\ Calls < MaxOps
        /\ heap' = initialize(heap, Target(w), gg)
        /\ hist' = Push([name |-> "initialize", on |-> w, g |-> gg, n |-> Calls + 1])
        /\ UNCHANGED <<params, f, g, solA, solB, cpu, gpu, mtl, red, parser, loader, eng>>

SolWrite ==
    \E w \in {"a", "b"}, t \in WritePoints(solA) :
        /\ Calls < MaxOps
        /\ heap' = Write(heap, Target(w), t[1], t[2], t[3], Sentinel)
        /\ hist' = Push([name |-> "write", on |-> w, at |-> t, n |-> Calls + 1])
        /\ UNCHANGED <<params, f, g, solA, solB, cpu, gpu, mtl, red, parser, loader, eng>>

SolSwap ==
    /\ Calls < MaxOps
    /\ solA' = swap(solA, solB)[1]
    /\ solB' = swap(solA, solB)[2]
    /\ hist' = Push([name |-> "swap", n |-> Calls + 1])
    /\ UNCHANGED <<params, f, g, heap, cpu, gpu, mtl, red, parser, loader, eng>>

NextSolution == SolInitialize \/ SolWrite \/ SolSwap

SpecSolution == InitSolution /\ [][NextSolution]_vars

(***************************************************************************)
(* HeatEquation (heat_equation.hpp, heat_equation.cpp): the host path.     *)
(***************************************************************************)
\* the p-th triple visited by for k in 1..nz-1 { for j in 1..ny-1 { for i in 1..nx-1 } }
SweepPoint(p, q) == <<1 + (q % (p.n_x - 1)),
                      1 + ((q \div (p.n_x - 1)) % (p.n_y - 1)),
                      1 + (q \div ((p.n_x - 1) * (p.n_y - 1)))>>

\* the number of triples the three loops of compute_timestep visit
SweepCount(p) ==
    IF p.n_x < 2 \/ p.n_y < 2 \/ p.n_z < 2 THEN 0
    ELSE (p.n_x - 1) * (p.n_y - 1) * (p.n_z - 1)

\* a discrete laplacian with the sign of the centre term wrong
Laplacian_PlusCentre(h, p, U, i, j, k) ==
    DivBy(Read(h, U, i + 1, j, k) + 2 * Read(h, U, i, j, k) + Read(h, U, i - 1, j, k), getDx2(p)) +
    DivBy(Read(h, U, i, j + 1, k) + 2 * Read(h, U, i, j, k) + Read(h, U, i, j - 1, k), getDy2(p)) +
    DivBy(Read(h, U, i, j, k + 1) + 2 * Read(h, U, i, j, k) + Read(h, U, i, j, k - 1), getDz2(p))

\* the discrete laplacian of compute_timestep
Laplacian(h, p, U, i, j, k) ==
    DivBy(Read(h, U, i + 1, j, k) - 2 * Read(h, U, i, j, k) + Read(h, U, i - 1, j, k), getDx2(p)) +
    DivBy(Read(h, U, i, j + 1, k) - 2 * Read(h, U, i, j, k) + Read(h, U, i, j - 1, k), getDy2(p)) +
    DivBy(Read(h, U, i, j, k + 1) - 2 * Read(h, U, i, j, k) + Read(h, U, i, j, k - 1), getDz2(p))

\* local_variation = dt * (laplacian + f(i*dx, j*dy, k*dz, current_time))
LocalVariation(h, p, ff, U, time, i, j, k) ==
    p.dt * (Laplacian(h, p, U, i, j, k) +
            ApplyF(ff, Times(i, getDx(p)), Times(j, getDy(p)), Times(k, getDz(p)), time))

\* the loops of HeatEquation::compute_timestep over the interior points
\* lo..hi of the loop order, one after the other (the range is halved, and
\* the first half is evaluated before the second, to keep the evaluation
\* shallow); st = [heap, total_variation]
RECURSIVE SweepLoop(_, _, _, _, _, _, _, _)
SweepLoop(st, p, ff, Ucur, Unext, time, lo, hi) ==
    IF lo > hi THEN st
    ELSE IF lo = hi
    THEN LET t  == SweepPoint(p, lo)
             lv == LocalVariation(st.heap, p, ff, Ucur, time, t[1], t[2], t[3])
             nv == Read(st.heap, Ucur, t[1], t[2], t[3]) + lv
         IN  [heap |-> Write(st.heap, Unext, t[1], t[2], t[3], nv),
              total_variation |-> st.total_variation + Abs(lv)]
    ELSE LET mid   == (lo + hi) \div 2
             first == SweepLoop(st, p, ff, Ucur, Unext, time, lo, mid)
         IN  IF DOMAIN first.heap = DOMAIN st.heap
             THEN SweepLoop(first, p, ff, Ucur, Unext, time, mid + 1, hi)
             ELSE first

\* HeatEquation::compute_timestep: [heap, total_variation] after the call
compute_timestep(h, p, ff, Ucur, Unext, time) ==
    SweepLoop([heap |-> h, total_variation |-> 0], p, ff, Ucur, Unext, time,
              0, SweepCount(p) - 1)

\* a constructor that initializes U_current only
Construct_OneField(h, Ucur, Unext, gg, gpu_init) ==
    IF gpu_init THEN h ELSE initialize(h, Ucur, gg)

\* HeatEquation::HeatEquation: if (!gpu_init) both fields are initialized with g
Construct(h, Ucur, Unext, gg, gpu_init) ==
    IF gpu_init THEN h ELSE initialize(initialize(h, Ucur, gg), Unext, gg)

\* the members of a HeatEquation after its constructor
HeatEquation(p, idCur, idNext) ==
    [U_current |-> Solution(p, idCur), U_next |-> Solution(p, idNext),
     current_time |-> 0, iter |-> 0, calls |-> 0, variation |-> 0, pc |-> "constructed"]

\* an iteration that advances the time before it computes the step
SolveIteration_AdvanceFirst(o, h, p, ff) ==
    LET r == compute_timestep(h, p, ff, o.U_current, o.U_next, o.current_time + p.dt)
        sw == swap(o.U_current, o.U_next)
    IN  <<[o EXCEPT !.variation = r.total_variation,
                    !.calls = o.calls + 1,
                    !.current_time = o.current_time + p.dt,
                    !.U_current = sw[1],
                    !.U_next = sw[2],
                    !.iter = o.iter + 1],
          r.heap>>

\* one iteration of the loop of solve(): compute_timestep, current_time += dt,
\* U_current.swap(U_next); <<object, heap>> after it
SolveIteration(o, h, p, ff) ==
    LET r == compute_timestep(h, p, ff, o.U_current, o.U_next, o.current_time)
        sw == swap(o.U_current, o.U_next)
    IN  <<[o EXCEPT !.variation = r.total_variation,
                    !.calls = o.calls + 1,
                    !.current_time = o.current_time + p.dt,
                    !.U_current = sw[1],
                    !.U_next = sw[2],
                    !.iter = o.iter + 1],
          r.heap>>

\* the inputs of a run: grid, time step, iteration count, f and g
InitInputs ==
    /\ \E nx \in MinN..MaxN, ny \in MinN..MaxN, nz \in MinN..MaxN,
          dt \in 1..MaxDt, maxit \in 0..MaxIter :
          params = Parameters(nx, ny, nz, dt, maxit)
    /\ f \in FSet
    /\ g \in GSet

UnusedSolution == solA = NoValue /\ solB = NoValue /\ hist = NoValue

InitHost ==
    /\ InitInputs
    /\ cpu = HeatEquation(params, 1, 2)
    /\ heap = Construct([id \in {1, 2} |-> Zeros(getNtot(params))],
                        cpu.U_current, cpu.U_next, g, FALSE)
    /\ UnusedSolution
    /\ gpu = NoValue
    /\ mtl = NoValue
    /\ red = NoValue
    /\ parser = NoValue
    /\ loader = NoValue
    /\ eng = NoValue

\* solve() is entered
HostSolveBegin ==
    /\ cpu.pc = "constructed"
    /\ cpu' = [cpu EXCEPT !.pc = "solving"]
    /\ UNCHANGED <<params, f, g, heap, solA, solB, hist, gpu, mtl, red, parser, loader, eng>>

\* the body of for (iter = 0; iter < max_iterations; ++iter)
HostSolveIteration ==
    /\ cpu.pc = "solving"
    /\ cpu.iter < params.max_iterations
    /\ cpu' = SolveIteration(cpu, heap, params, f)[1]
    /\ heap' = SolveIteration(cpu, heap, params, f)[2]
    /\ UNCHANGED <<params, f, g, solA, solB, hist, gpu, mtl, red, parser, loader, eng>>

\* a loop that also stops once compute_timestep has returned a variation of 0
HostSolveReturn_OnConvergence ==
    /\ cpu.pc = "solving"
    /\ \/ ~(cpu.iter < params.max_iterations)
       \/ cpu.calls > 0 /\ cpu.variation = 0
    /\ cpu' = [cpu EXCEPT !.pc = "done"]
    /\ UNCHANGED <<params, f, g, heap, solA, solB, hist, gpu, mtl, red, parser, loader, eng>>

\* the loop condition fails and solve() returns
HostSolveReturn ==
    /\ cpu.pc = "solving"
    /\ ~(cpu.iter < params.max_iterations)
    /\ cpu' = [cpu EXCEPT !.pc = "done"]
    /\ UNCHANGED <<params, f, g, heap, solA, solB, hist, gpu, mtl, red, parser, loader, eng>>

NextHost == HostSolveBegin \/ HostSolveIteration \/ HostSolveReturn

SpecHost == InitHost /\ [][NextHost]_vars

\* a step of the object while solve() has not returned; under SpecHost these
\* are the steps of NextHost, which is enabled exactly when cpu.pc # "done"
HostStep ==
    /\ cpu.pc # "done"
    /\ \/ cpu' = [cpu EXCEPT !.pc = "done"]
       \/ cpu' # cpu

\* solve() is sequential code: it keeps executing until it returns
SpecHostFair == SpecHost /\ WF_cpu(HostStep)

(***************************************************************************)
(* MetalHeatEquation (metal_heat_equation.cpp) and its kernels: the device *)
(* path.  mtl maps every MTL::Buffer to its contents; a new buffer is      *)
(* zero-filled.                                                            *)
(***************************************************************************)
SizeofFloat == 4
threads_per_group == 256

\* the significand of a float has 24 bits
FloatPrecision == 16777216

RECURSIVE Ulp(_, _)
Ulp(a, u) == IF a < FloatPrecision * u THEN u ELSE Ulp(a, 2 * u)

\* static_cast<float> of an integer value: round to nearest, ties to even
ToFloat(v) ==
    LET a == Abs(v)
        u == Ulp(a, 1)
        q == a \div u
        r == a % u
        n == IF 2 * r > u \/ (2 * r = u /\ q % 2 = 1) THEN (q + 1) * u ELSE q * u
    IN  IF v < 0 THEN -n ELSE n

\* struct GPUParameters as setupBuffers fills it
GPUParameters(p) ==
    [dx |-> getDx(p), dy |-> getDy(p), dz |-> getDz(p),
     dx2 |-> getDx2(p), dy2 |-> getDy2(p), dz2 |-> getDz2(p),
     dt |-> ToFloat(p.dt), nx |-> p.n_x, ny |-> p.n_y, nz |-> p.n_z,
     current_time |-> 0]

\* the count of the points the host sweep visits, 1 <= i < nx
num_interior_points_Host(p) == (p.n_x - 1) * (p.n_y - 1) * (p.n_z - 1)

\* num_interior_points = (nx - 2) * (ny - 2) * (nz - 2)
num_interior_points(p) == (p.n_x - 2) * (p.n_y - 2) * (p.n_z - 2)

\* num_groups = (total_elements + threads_per_group - 1) / threads_per_group
num_groups(n) == (n + threads_per_group - 1) \div threads_per_group

\* the threads of dispatchThreads(MTL::Size(w, h, d), ...)
GridThreads(w, h, d) == (0..(w - 1)) \X (0..(h - 1)) \X (0..(d - 1))

\* the outcomes of a dispatch whose threads make the writes W (a set of
\* <<offset, value>>) to buf: an offset written by several threads with
\* different values keeps any one of them
DispatchOutcomes(buf, W) ==
    LET offs    == {w[1] : w \in W}
        cand    == [o \in offs |-> {w[2] : w \in {x \in W : x[1] = o}}]
        raced   == {o \in offs : Cardinality(cand[o]) > 1}
        vals    == UNION {cand[o] : o \in raced}
        choices == {c \in [raced -> vals] : \A o \in raced : c[o] \in cand[o]}
    IN  {[o \in DOMAIN buf |->
             IF o \in raced THEN c[o]
             ELSE IF o \in offs THEN CHOOSE v \in cand[o] : TRUE
             ELSE buf[o]] : c \in choices}

\* initialize_solution_kernel: the write of the thread at index, if any
initialize_solution_kernel(prm, gg, index) ==
    IF index[1] > prm.nx \/ index[2] > prm.ny \/ index[3] > prm.nz THEN {}
    ELSE LET x   == Times(index[1], prm.dx)
             y   == Times(index[2], prm.dy)
             z   == Times(index[3], prm.dz)
             idx == index[1] + prm.nx * (index[2] + prm.ny * index[3])
         IN  {<<idx, ToFloat(ApplyG(gg, x, y, z))>>}

\* the bounds check of heat_equation_kernel and compute_variation_kernel
SkipBoundary(prm, i, j, k) ==
    \/ i = 0 \/ i >= prm.nx - 1
    \/ j = 0 \/ j >= prm.ny - 1
    \/ k = 0 \/ k >= prm.nz - 1

\* heat_equation_kernel: the write to next_state of the thread at position
heat_equation_kernel(current_state, prm, ff, position) ==
    LET i == position[1]
        j == position[2]
        k == position[3]
    IN  IF SkipBoundary(prm, i, j, k) THEN {}
        ELSE LET idx     == i + prm.nx * (j + prm.ny * k)
                 idx_im1 == (i - 1) + prm.nx * (j + prm.ny * k)
                 idx_ip1 == (i + 1) + prm.nx * (j + prm.ny * k)
                 idx_jm1 == i + prm.nx * ((j - 1) + prm.ny * k)
                 idx_jp1 == i + prm.nx * ((j + 1) + prm.ny * k)
                 idx_km1 == i + prm.nx * (j + prm.ny * (k - 1))
                 idx_kp1 == i + prm.nx * (j + prm.ny * (k + 1))
                 laplacian ==
                     DivBy(current_state[idx_ip1] - 2 * current_state[idx] + current_state[idx_im1], prm.dx2) +
                     DivBy(current_state[idx_jp1] - 2 * current_state[idx] + current_state[idx_jm1], prm.dy2) +
                     DivBy(current_state[idx_kp1] - 2 * current_state[idx] + current_state[idx_km1], prm.dz2)
                 force == ApplyF(ff, Times(i, prm.dx), Times(j, prm.dy), Times(k, prm.dz),
                                 prm.current_time)
                 local_variation == prm.dt * (laplacian + force)
             IN  {<<idx, ToFloat(current_state[idx] + local_variation)>>}

\* compute_variation_kernel: the write to variation_buffer of the thread at
\* position, and its writes to debug_buffer
compute_variation_kernel(current_state, prm, ff, position) ==
    LET i == position[1]
        j == position[2]
        k == position[3]
    IN  IF SkipBoundary(prm, i, j, k) THEN [variation |-> {}, debug |-> {}]
        ELSE LET idx         == i + prm.nx * (j + prm.ny * k)
                 interior_nx == prm.nx - 2
                 interior_ny == prm.ny - 2
                 grid_idx    == (i - 1) + interior_nx * ((j - 1) + interior_ny * (k - 1))
                 um  == current_state[idx]
                 up1 == current_state[idx + 1]
                 um1 == current_state[idx - 1]
                 vp1 == current_state[idx + prm.nx]
                 vm1 == current_state[idx - prm.nx]
                 wp1 == current_state[idx + prm.nx * prm.ny]
                 wm1 == current_state[idx - prm.nx * prm.ny]
                 laplacian == DivBy(up1 - 2 * um + um1, prm.dx2) +
                              DivBy(vp1 - 2 * um + vm1, prm.dy2) +
                              DivBy(wp1 - 2 * um + wm1, prm.dz2)
                 force == ApplyF(ff, Times(i, prm.dx), Times(j, prm.dy), Times(k, prm.dz),
                                 prm.current_time)
                 local_variation == ToFloat(prm.dt * (laplacian + force))
             IN  [variation |-> {<<grid_idx, Abs(local_variation)>>},
                  debug |-> IF i = 1 /\ j = 1 /\ k = 1
                            THEN {<<0, local_variation>>, <<1, ToFloat(laplacian)>>,
                                  <<2, ToFloat(force)>>}
                            ELSE {}]

\* the size of the threadgroup grp of dispatchThreads(n, threads_per_group):
\* the last threadgroup of a grid that is no multiple of the group size is
\* smaller, and threads_per_threadgroup is the size of the thread's own group
ThreadsPerThreadgroup(n, grp) ==
    IF n - grp * threads_per_group < threads_per_group
    THEN n - grp * threads_per_group
    ELSE threads_per_group

\* for (s = threads_per_threadgroup/2; s > 0; s >>= 1): the rounds from s on,
\* each one followed by a barrier
RECURSIVE TreeReduce(_, _)
TreeReduce(shared_memory, s) ==
    IF s = 0 THEN shared_memory
    ELSE TreeReduce([tid \in DOMAIN shared_memory |->
                        IF tid < s
                        THEN ToFloat(shared_memory[tid] + shared_memory[tid + s])
                        ELSE shared_memory[tid]],
                    s \div 2)

\* reduce_variation_kernel: the write to result made by thread 0 of the
\* threadgroup grp, in a grid of n threads
reduce_variation_kernel(variation_buffer, n, grp) ==
    LET tpt    == ThreadsPerThreadgroup(n, grp)
        first  == grp * threads_per_group
        loaded == [tid \in 0..(tpt - 1) |-> variation_buffer[first + tid]]
        summed == TreeReduce(loaded, tpt \div 2)
    IN  <<first \div tpt, summed[0]>>

\* the writes of the whole reduction dispatch; a write past the end of the
\* result buffer changes none of its elements
ReduceWrites(variation_buffer, n) ==
    {reduce_variation_kernel(variation_buffer, n, grp) : grp \in 0..(num_groups(n) - 1)}

\* for (i = 0; i < num_groups; ++i) total_variation += result[i], over lo..hi
RECURSIVE SumResult(_, _, _)
SumResult(result, lo, hi) ==
    IF lo > hi THEN 0
    ELSE IF lo = hi THEN result[lo]
    ELSE SumResult(result, lo, (lo + hi) \div 2) +
         SumResult(result, (lo + hi) \div 2 + 1, hi)

\* an initialize that copies first and compares the sizes afterwards
InitializeFromBuffer_CopyFirst(h, s, gpu_data, size) ==
    [thrown |-> size # s.size * SizeofFloat,
     heap |-> [h EXCEPT ![s.data] = [i \in 0..(s.size - 1) |-> gpu_data[i]]]]

\* Solution::initialize(MTL::Buffer*, size): [thrown, heap] after the call
InitializeFromBuffer(h, s, gpu_data, size) ==
    IF size # s.size * SizeofFloat
    THEN [thrown |-> TRUE, heap |-> h]
    ELSE [thrown |-> FALSE,
          heap |-> [h EXCEPT ![s.data] = [i \in 0..(s.size - 1) |-> gpu_data[i]]]]

DebugFloats == 3

\* the buffers setupBuffers allocates; currentBuffer is seeded from U_current
setupBuffers(h, o, p) ==
    [state0    |-> [i \in 0..(getNtot(p) - 1) |-> ToFloat(h[o.U_current.data][i])],
     state1    |-> Zeros(getNtot(p)),
     params    |-> GPUParameters(p),
     variation |-> Zeros(num_interior_points(p)),
     result    |-> Zeros(num_groups(num_interior_points(p))),
     debug     |-> Zeros(DebugFloats)]

\* the members of a MetalHeatEquation when its base class is constructed
MetalHeatEquation(p, idCur, idNext) ==
    [U_current |-> Solution(p, idCur), U_next |-> Solution(p, idNext),
     current_time |-> 0, iter |-> 0, calls |-> 0, variation |-> 0,
     pc |-> "constructing", stage |-> "Uninitialized",
     currentBuffer |-> "null", nextBuffer |-> "null"]

InitDevice ==
    /\ InitInputs
    /\ gpu = MetalHeatEquation(params, 1, 2)
    /\ heap = Construct([id \in {1, 2} |-> Zeros(getNtot(params))],
                        gpu.U_current, gpu.U_next, g, TRUE)
    /\ mtl = [none \in {} |-> 0]
    /\ UnusedSolution
    /\ cpu = NoValue
    /\ red = NoValue
    /\ parser = NoValue
    /\ loader = NoValue
    /\ eng = NoValue

\* initializeMetal(): device, queue, library and the four pipelines
DevInitializeMetal ==
    /\ gpu.stage = "Uninitialized"
    /\ gpu' = [gpu EXCEPT !.stage = "MetalResourcesReady"]
    /\ UNCHANGED <<params, f, g, heap, solA, solB, hist, cpu, mtl, red, parser, loader, eng>>

\* a setupBuffers that lets both names refer to one buffer
DevSetupBuffers_OneBuffer ==
    /\ gpu.stage = "MetalResourcesReady"
    /\ mtl' = setupBuffers(heap, gpu, params)
    /\ gpu' = [gpu EXCEPT !.stage = "BuffersReady",
                          !.currentBuffer = "state0", !.nextBuffer = "state0"]
    /\ UNCHANGED <<params, f, g, heap, solA, solB, hist, cpu, red, parser, loader, eng>>

\* setupBuffers()
DevSetupBuffers ==
    /\ gpu.stage = "MetalResourcesReady"
    /\ mtl' = setupBuffers(heap, gpu, params)
    /\ gpu' = [gpu EXCEPT !.stage = "BuffersReady",
                          !.currentBuffer = "state0", !.nextBuffer = "state1"]
    /\ UNCHANGED <<params, f, g, heap, solA, solB, hist, cpu, red, parser, loader, eng>>

\* the writes of the initialization dispatch over (nx+1, ny+1, nz+1) threads
InitializeWrites(prm, gg) ==
    UNION {initialize_solution_kernel(prm, gg, t) :
              t \in GridThreads(prm.nx + 1, prm.ny + 1, prm.nz + 1)}

\* an initializeSolutionGPU that reads back into U_current only
DevInitializeSolutionGPU_CurrentOnly ==
    /\ gpu.stage = "BuffersReady"
    /\ \E cur \in DispatchOutcomes(mtl[gpu.currentBuffer],
                                   InitializeWrites(mtl.params, g)) :
          LET dataSize == getNtot(params) * SizeofFloat
              r1 == InitializeFromBuffer(heap, gpu.U_current, cur, dataSize)
          IN  /\ mtl' = [mtl EXCEPT ![gpu.currentBuffer] = cur]
              /\ heap' = r1.heap
              /\ gpu' = [gpu EXCEPT !.stage = "FieldInitialized", !.pc = "constructed"]
    /\ UNCHANGED <<params, f, g, solA, solB, hist, cpu, red, parser, loader, eng>>

\* initializeSolutionGPU(): the dispatch, then both host fields read back
\* from currentBuffer; the constructor returns
DevInitializeSolutionGPU ==
    /\ gpu.stage = "BuffersReady"
    /\ \E cur \in DispatchOutcomes(mtl[gpu.currentBuffer],
                                   InitializeWrites(mtl.params, g)) :
          LET dataSize == getNtot(params) * SizeofFloat
              r1 == InitializeFromBuffer(heap, gpu.U_current, cur, dataSize)
              r2 == InitializeFromBuffer(r1.heap, gpu.U_next, cur, dataSize)
          IN  /\ mtl' = [mtl EXCEPT ![gpu.currentBuffer] = cur]
              /\ heap' = r2.heap
              /\ gpu' = [gpu EXCEPT !.stage = "FieldInitialized", !.pc = "constructed"]
    /\ UNCHANGED <<params, f, g, solA, solB, hist, cpu, red, parser, loader, eng>>

DevSolveBegin ==
    /\ gpu.pc = "constructed"
    /\ gpu' = [gpu EXCEPT !.pc = "solving"]
    /\ UNCHANGED <<params, f, g, heap, solA, solB, hist, cpu, mtl, red, parser, loader, eng>>

\* the writes of the update dispatch over (nx, ny, nz) threads
UpdateWrites(cur, prm, ff) ==
    UNION {heat_equation_kernel(cur, prm, ff, t) : t \in GridThreads(prm.nx, prm.ny, prm.nz)}

\* the writes of the variation dispatch to the variation buffer
VariationWrites(cur, prm, ff) ==
    UNION {compute_variation_kernel(cur, prm, ff, t).variation :
              t \in GridThreads(prm.nx, prm.ny, prm.nz)}

\* the writes of the variation dispatch to the debug buffer
DebugWrites(cur, prm, ff) ==
    UNION {compute_variation_kernel(cur, prm, ff, t).debug :
              t \in GridThreads(prm.nx, prm.ny, prm.nz)}

\* one iteration of solve() on the device path: MetalHeatEquation::
\* compute_timestep (current_time written, the three dispatches, the host
\* sum, the buffer swap), then current_time += dt and U_current.swap(U_next)
DevSolveIteration ==
    /\ gpu.pc = "solving"
    /\ gpu.iter < params.max_iterations
    /\ LET prm == [mtl.params EXCEPT !.current_time = ToFloat(gpu.current_time)]
           cur == mtl[gpu.currentBuffer]
           n   == num_interior_points(params)
           sw  == swap(gpu.U_current, gpu.U_next)
       IN  \E nxt \in DispatchOutcomes(mtl[gpu.nextBuffer], UpdateWrites(cur, prm, f)),
              var \in DispatchOutcomes(mtl.variation, VariationWrites(cur, prm, f)),
              dbg \in DispatchOutcomes(mtl.debug, DebugWrites(cur, prm, f)) :
              \E res \in DispatchOutcomes(mtl.result, ReduceWrites(var, n)) :
                 /\ mtl' = [mtl EXCEPT ![gpu.nextBuffer] = nxt, !.params = prm,
                                       !.variation = var, !.debug = dbg, !.result = res]
                 /\ gpu' = [gpu EXCEPT !.variation = SumResult(res, 0, num_groups(n) - 1),
                                       !.calls = gpu.calls + 1,
                                       !.currentBuffer = gpu.nextBuffer,
                                       !.nextBuffer = gpu.currentBuffer,
                                       !.current_time = gpu.current_time + params.dt,
                                       !.U_current = sw[1],
                                       !.U_next = sw[2],
                                       !.iter = gpu.iter + 1]
    /\ UNCHANGED <<params, f, g, heap, solA, solB, hist, cpu, red, parser, loader, eng>>

DevSolveReturn ==
    /\ gpu.pc = "solving"
    /\ ~(gpu.iter < params.max_iterations)
    /\ gpu' = [gpu EXCEPT !.pc = "done"]
    /\ UNCHANGED <<params, f, g, heap, solA, solB, hist, cpu, mtl, red, parser, loader, eng>>

NextDevice ==
    \/ DevInitializeMetal
    \/ DevSetupBuffers
    \/ DevInitializeSolutionGPU
    \/ DevSolveBegin
    \/ DevSolveIteration
    \/ DevSolveReturn

SpecDevice == InitDevice /\ [][NextDevice]_vars

(***************************************************************************)
(* A stand-alone reduction: the reduction dispatch of compute_timestep and *)
(* the host sum that follows it, for any interior-point count and any      *)
(* variation buffer.                                                       *)
(***************************************************************************)
MaxRedN      == 9    \* counts 1..MaxRedN, and as many past each multiple of 256
MaxRedGroups == 2    \* whole thread groups in front of the last one

RedCounts == (1..MaxRedN) \cup
             {q * threads_per_group + r : q \in 1..MaxRedGroups, r \in 0..MaxRedN}

\* variation buffers: all ones, 1, 2, 3, ..., and a single 1 in the last place
RedBuffer(kind, n) ==
    [i \in 0..(n - 1) |->
        CASE kind = "ones" -> 1
          [] kind = "ramp" -> i + 1
          [] kind = "last" -> IF i = n - 1 THEN 1 ELSE 0]

InitReduce ==
    /\ \E n \in RedCounts, kind \in {"ones", "ramp", "last"} :
          red = [total_elements |-> n, variation |-> RedBuffer(kind, n),
                 result |-> Zeros(num_groups(n)), total_variation |-> 0,
                 pc |-> "encoded"]
    /\ params = NoValue
    /\ heap = NoValue
    /\ UnusedEngines
    /\ UnusedSolution
    /\ parser = NoValue
    /\ loader = NoValue
    /\ eng = NoValue

\* dispatchThreads(total_elements, 256), waitUntilCompleted, the host sum
RedDispatch ==
    /\ red.pc = "encoded"
    /\ \E res \in DispatchOutcomes(red.result,
                                   ReduceWrites(red.variation, red.total_elements)) :
          red' = [red EXCEPT !.result = res,
                             !.total_variation =
                                 SumResult(res, 0, num_groups(red.total_elements) - 1),
                             !.pc = "summed"]
    /\ UNCHANGED <<params, f, g, heap, solA, solB, hist, cpu, gpu, mtl, parser, loader, eng>>

NextReduce == RedDispatch

SpecReduce == InitReduce /\ [][NextReduce]_vars

(***************************************************************************)
(* FunctionParser (function_parser.hpp).  A text is a sequence of tokens:  *)
(* maximal runs of word characters (\w+) and single punctuation signs;     *)
(* white space separates two adjacent words and is not kept otherwise.     *)
(* A local of parseFile that is not yet constructed is the empty sequence, *)
(* signature and result hold their record as the one element of a sequence.*)
(***************************************************************************)
MaxParams == 2    \* declarators in a parameter list

Punctuation == {"(", ")", "{", "}", ",", ";", "&", "+", "::"}

\* the characters of the tokens that hold a digit
Spelling ==
    [t \in {"2", "10", "1.0", "1.0f", "x2", "a_1"} |->
        CASE t = "2"    -> <<"2">>
          [] t = "10"   -> <<"1", "0">>
          [] t = "1.0"  -> <<"1", ".", "0">>
          [] t = "1.0f" -> <<"1", ".", "0", "f">>
          [] t = "x2"   -> <<"x", "2">>
          [] t = "a_1"  -> <<"a", "_", "1">>]

\* the literals that are not one run of word characters
DecimalLiterals == {t \in DOMAIN Spelling : \E i \in 1..Len(Spelling[t]) : Spelling[t][i] = "."}

IsWord(t) == t \notin Punctuation \cup DecimalLiterals

\* a file that cannot be opened
NoFile == <<"no such file">>

\* the least index >= from of a token in stop, 0 when there is none
RECURSIVE FindFirst(_, _, _)
FindFirst(text, from, stop) ==
    IF from > Len(text) THEN 0
    ELSE IF text[from] \in stop THEN from
    ELSE FindFirst(text, from + 1, stop)

\* the end of a match of  head \s* \([^)]*\) [^;{]* \{ [^}]* \}  that starts
\* at token i, 0 when there is none there
MatchFunctionAt(content, i, head) ==
    LET open == i + Len(head)
    IN  IF open > Len(content) \/ SubSeq(content, i, open - 1) # head
           \/ content[open] # "("
        THEN 0
        ELSE LET close == FindFirst(content, open + 1, {")"})
                 brace == IF close = 0 THEN 0
                          ELSE FindFirst(content, close + 1, {";", "{"})
             IN  IF brace = 0 THEN 0
                 ELSE IF content[brace] # "{" THEN 0
                 ELSE FindFirst(content, brace + 1, {"}"})

RECURSIVE SearchFunction(_, _, _)
SearchFunction(content, i, head) ==
    IF i > Len(content) THEN <<>>
    ELSE LET last == MatchFunctionAt(content, i, head)
         IN  IF last # 0 THEN SubSeq(content, i, last)
             ELSE SearchFunction(content, i + 1, head)

\* an extraction whose pattern never asks for the inline qualifier
extractFunction_IgnoreInline(content, options) ==
    SearchFunction(content, 1, <<"double", options.functionName>>)

\* the matched text, or <<>> for "Cannot find function"
extractFunction(content, options) ==
    SearchFunction(content, 1,
                   IF options.requireInline
                   THEN <<"inline", "double", options.functionName>>
                   ELSE <<"double", options.functionName>>)

\* the matches of  (\w+)\s+(\w+)(?:\s*,\s*)?  from token i on
RECURSIVE ParameterMatches(_, _)
ParameterMatches(ptext, i) ==
    IF i + 1 > Len(ptext) THEN <<>>
    ELSE IF IsWord(ptext[i]) /\ IsWord(ptext[i + 1])
    THEN <<[type |-> ptext[i], name |-> ptext[i + 1]]>>
             \o ParameterMatches(ptext, i + 2)
    ELSE ParameterMatches(ptext, i + 1)

EmptySignature == [name |-> "", returnType |-> "", parameters |-> <<>>]

\* a match of  (?:inline\s+)?(\w+)\s+(\w+)\s*\((.*?)\)  that starts at token i
SignatureAt(function, i) ==
    LET skip  == IF function[i] = "inline" /\ i + 3 <= Len(function)
                    /\ IsWord(function[i + 1]) /\ IsWord(function[i + 2])
                    /\ function[i + 3] = "("
                    /\ FindFirst(function, i + 4, {")"}) # 0
                 THEN 1 ELSE 0
         first == i + skip
         close == IF first + 2 <= Len(function) /\ IsWord(function[first])
                     /\ IsWord(function[first + 1]) /\ function[first + 2] = "("
                  THEN FindFirst(function, first + 3, {")"})
                  ELSE 0
    IN  IF close = 0 THEN EmptySignature
        ELSE [name |-> function[first + 1], returnType |-> function[first],
              parameters |->
                  ParameterMatches(SubSeq(function, first + 3, close - 1), 1)]

RECURSIVE SearchSignature(_, _)
SearchSignature(function, i) ==
    IF i > Len(function) THEN EmptySignature
    ELSE LET sig == SignatureAt(function, i)
         IN  IF sig # EmptySignature THEN sig
             ELSE SearchSignature(function, i + 1)

parseFunctionSignature(function) == SearchSignature(function, 1)

\* the type loop left out
validateFunction_CountOnly(signature, options) ==
    IF Len(signature.parameters) # Len(options.requiredParams)
    THEN "Function must have exactly n parameters"
    ELSE "ok"

\* "ok", or the message of the runtime_error thrown
validateFunction(signature, options) ==
    IF Len(signature.parameters) # Len(options.requiredParams)
    THEN "Function must have exactly n parameters"
    ELSE IF \E i \in 1..Len(options.requiredParams) :
                signature.parameters[i].type # options.requiredParams[i]
    THEN "Parameter i must be of type t"
    ELSE "ok"

mathFunctions == {"sin", "cos", "exp", "pow", "sqrt", "log", "abs"}

IsDigit(c) == c \in {"0", "1", "2", "3", "4", "5", "6", "7", "8", "9"}

\* [a-zA-Z_], over the letters the tokens are spelled with
IsLetter(c) == c \in {"a", "f", "x", "_"}

\* \b at position p of text: one of text[p - 1], text[p] is a word character
\* (\w) and the other is not, the ends of the text counting as not
WordBoundary(text, p) ==
    LET before == p > 1 /\ (IsDigit(text[p - 1]) \/ IsLetter(text[p - 1]))
        after  == p <= Len(text) /\ (IsDigit(text[p]) \/ IsLetter(text[p]))
    IN  before # after

\* the number of digits of text from position p on
RECURSIVE DigitRun(_, _)
DigitRun(text, p) ==
    IF p > Len(text) THEN 0
    ELSE IF IsDigit(text[p]) THEN 1 + DigitRun(text, p + 1)
    ELSE 0

\* the position after the match of  \b\d*\.?\d+\b(?![a-zA-Z_])  at p, 0 when
\* there is none: every quantifier takes the most it can and gives back
\* what the rest of the pattern needs
NumberEnd(text, p) ==
    LET tries == {m \in (0..DigitRun(text, p)) \X {0, 1} \X (1..Len(text)) :
                     /\ m[2] = 1 => (p + m[1] <= Len(text) /\ text[p + m[1]] = ".")
                     /\ m[3] <= DigitRun(text, p + m[1] + m[2])
                     /\ WordBoundary(text, p + m[1] + m[2] + m[3])
                     /\ (p + m[1] + m[2] + m[3] <= Len(text)
                            => ~IsLetter(text[p + m[1] + m[2] + m[3]]))}
        Before(a, b) == \/ a[1] > b[1]
                        \/ a[1] = b[1] /\ a[2] > b[2]
                        \/ a[1] = b[1] /\ a[2] = b[2] /\ a[3] >= b[3]
    IN  IF ~WordBoundary(text, p) \/ tries = {} THEN 0
        ELSE LET m == CHOOSE a \in tries : \A b \in tries : Before(a, b)
             IN  p + m[1] + m[2] + m[3]

\* the match of  (-?\b\d*\.?\d+\b)(?![a-zA-Z_])  at i
NumberMatchEnd(text, i) ==
    LET signed == IF text[i] = "-" THEN NumberEnd(text, i + 1) ELSE 0
    IN  IF signed # 0 THEN signed ELSE NumberEnd(text, i)

\* std::regex_replace(text, numberRegex, "$1f") from position i on
RECURSIVE AppendSuffix(_, _)
AppendSuffix(text, i) ==
    IF i > Len(text) THEN <<>>
    ELSE LET end == NumberMatchEnd(text, i)
         IN  IF end = 0 THEN <<text[i]>> \o AppendSuffix(text, i + 1)
             ELSE SubSeq(text, i, end - 1) \o <<"f">> \o AppendSuffix(text, end)

RECURSIVE Concatenate(_, _)
Concatenate(text, i) ==
    IF i > Len(text) THEN "" ELSE text[i] \o Concatenate(text, i + 1)

\* the look-ahead (?=\s*\() left out
QualifyMath_NoLookahead(text) ==
    [i \in 1..Len(text) |->
        IF text[i] \in mathFunctions THEN "metal::" \o text[i] ELSE text[i]]

\* for each func of mathFunctions: regex_replace of \bfunc\b(?=\s*\() by metal::func
QualifyMath(text) ==
    [i \in 1..Len(text) |->
        IF text[i] \in mathFunctions /\ i < Len(text) /\ text[i + 1] = "("
        THEN "metal::" \o text[i]
        ELSE text[i]]

\* the four regex_replace passes, token by token
convertToMetalFunction(cppCode) ==
    LET n == Len(cppCode)
        inlineDouble == [i \in 1..n |->
            IF cppCode[i] = "inline" /\ i < n /\ cppCode[i + 1] = "double"
            THEN "METAL_FUNC"
            ELSE IF cppCode[i] = "double" /\ i > 1 /\ cppCode[i - 1] = "inline"
            THEN "float"
            ELSE cppCode[i]]
        double == [i \in 1..n |->
            IF inlineDouble[i] = "double" THEN "float" ELSE inlineDouble[i]]
        number == [i \in 1..n |->
            IF double[i] \in DOMAIN Spelling
            THEN Concatenate(AppendSuffix(Spelling[double[i]], 1), 1)
            ELSE double[i]]
    IN  QualifyMath(number)

ParsedFunction(metalCode, originalCode, signature) ==
    [metalCode |-> metalCode, originalCode |-> originalCode,
     signature |-> signature]

\* the files parseFile is given
Declarators == {<<"double", "x">>, <<"float", "x">>, <<"const", "double", "x">>,
                <<"double", "&", "x">>, <<"double", "long", "x">>}

ParameterLists == UNION {[1..n -> Declarators] : n \in 0..MaxParams}

RECURSIVE JoinParameters(_, _)
JoinParameters(list, i) ==
    IF i > Len(list) THEN <<>>
    ELSE (IF i > 1 THEN <<",">> ELSE <<>>) \o list[i] \o JoinParameters(list, i + 1)

Bodies == {<<"return", "sin", "(", "x", ")", "+", "2", ";">>, <<"1.0", ";">>,
           <<"return", "x2", "+", "a_1", "+", "10", "+", "1.0f", ";">>,
           <<"return", "fabs", "(", "x", ")", "+", "sinx", "+", "sin", "+",
             "abs", "(", "x", ")", "+", "std", "::", "exp", "(", "x", ")", ";">>}

FunctionText(inline, name, list, body) ==
    (IF inline THEN <<"inline">> ELSE <<>>) \o <<"double", name, "(">>
        \o JoinParameters(list, 1) \o <<")", "{">> \o body \o <<"}">>

FileContents ==
    {NoFile} \cup
    {(IF lead THEN FunctionText(TRUE, "h", <<>>, <<"return", "2", ";">>) ELSE <<>>)
        \o FunctionText(inline, name, list, body) :
        lead \in BOOLEAN, inline \in BOOLEAN, name \in {"f", "g"},
        list \in ParameterLists, body \in Bodies}

ParserOptions ==
    {[functionName |-> "f", requiredParams |-> [i \in 1..n |-> "double"],
      requireInline |-> inl] : n \in 1..MaxParams, inl \in BOOLEAN}

InitParser ==
    /\ \E content \in FileContents, options \in ParserOptions :
          parser = [content |-> content, options |-> options, pc |-> "called",
                    originalFunction |-> <<>>, signature |-> <<>>,
                    metalFunction |-> <<>>, result |-> <<>>, error |-> ""]
    /\ params = NoValue
    /\ heap = NoValue
    /\ UnusedEngines
    /\ UnusedSolution
    /\ red = NoValue
    /\ loader = NoValue
    /\ eng = NoValue

Throw(message) == parser' = [parser EXCEPT !.pc = "thrown", !.error = message]

UnchangedButParser ==
    UNCHANGED <<params, f, g, heap, solA, solB, hist, cpu, gpu, mtl, red, loader, eng>>

\* std::ifstream file(filePath); content = buffer.str()
ParseFileRead ==
    /\ parser.pc = "called"
    /\ IF parser.content = NoFile
       THEN Throw("Cannot open file")
       ELSE parser' = [parser EXCEPT !.pc = "read"]
    /\ UnchangedButParser

ParseFileExtract ==
    /\ parser.pc = "read"
    /\ LET originalFunction == extractFunction(parser.content, parser.options)
       IN  IF originalFunction = <<>>
           THEN Throw("Cannot find function")
           ELSE parser' = [parser EXCEPT !.pc = "extracted",
                                         !.originalFunction = originalFunction]
    /\ UnchangedButParser

ParseFileSignature ==
    /\ parser.pc = "extracted"
    /\ parser' = [parser EXCEPT !.pc = "parsed",
                     !.signature = <<parseFunctionSignature(parser.originalFunction)>>]
    /\ UnchangedButParser

ParseFileValidate ==
    /\ parser.pc = "parsed"
    /\ LET outcome == validateFunction(parser.signature[1], parser.options)
       IN  IF outcome = "ok"
           THEN parser' = [parser EXCEPT !.pc = "validated"]
           ELSE Throw(outcome)
    /\ UnchangedButParser

\* convertToMetalFunction and the return of the ParsedFunction
ParseFileConvert ==
    /\ parser.pc = "validated"
    /\ LET metalFunction == convertToMetalFunction(parser.originalFunction)
       IN  parser' = [parser EXCEPT
                         !.pc = "returned",
                         !.metalFunction = metalFunction,
                         !.result = <<ParsedFunction(metalFunction,
                                                     parser.originalFunction,
                                                     parser.signature[1])>>]
    /\ UnchangedButParser

NextParser ==
    \/ ParseFileRead
    \/ ParseFileExtract
    \/ ParseFileSignature
    \/ ParseFileValidate
    \/ ParseFileConvert

SpecParser == InitParser /\ [][NextParser]_vars

(***************************************************************************)
(* ShaderLoader (shader_loader.hpp, shader_loader.cpp).  A text is the     *)
(* sequence of the pieces that its line feeds separate, so that a + "\n" + *)
(* b is a \o b; a piece is a string.                                       *)
(***************************************************************************)
shaderFiles == <<"common.metal", "heat_equation.metal", "variation.metal",
                 "reduce.metal", "initialization.metal">>

IncludeCommon == "#include \"common.metal\""

\* the pieces in which find("#include \"common.metal\"") succeeds
HoldsInclude(piece) == piece \in {IncludeCommon, "// " \o IncludeCommon}

DeclarationF == "METAL_FUNC float f(float x, float y, float z, float t);"
DeclarationG == "METAL_FUNC float g(float x, float y, float z);"

\* the pieces forceRegex, initRegex match from their first to their last character
MatchesForceRegex(piece) == piece \in {DeclarationF, "[[visible]] " \o DeclarationF}
MatchesInitRegex(piece)  == piece \in {DeclarationG, "[[visible]] " \o DeclarationG}

\* std::regex_replace(text, regex, replacement), piece by piece
\* matched is the set of the positions where the regex matches
RegexReplace(text, matched, replacement) ==
    [i \in 1..Len(text) |-> IF i \in matched THEN replacement ELSE text[i]]

\* shaderContent.substr(endPos + 1) after the first include, where endPos is
\* npos when no line feed follows the include
StripInclude(shaderContent) ==
    LET found == {i \in 1..Len(shaderContent) : HoldsInclude(shaderContent[i])}
    IN  IF found = {} THEN shaderContent
        ELSE LET includePos == CHOOSE i \in found : \A j \in found : i <= j
             IN  IF includePos = Len(shaderContent) THEN shaderContent
                 ELSE SubSeq(shaderContent, includePos + 1, Len(shaderContent))

RECURSIVE AppendShaders(_, _, _)
AppendShaders(combinedShader, shaderContents, i) ==
    IF i > Len(shaderContents) THEN combinedShader
    ELSE AppendShaders(combinedShader \o StripInclude(shaderContents[i]),
                       shaderContents, i + 1)

combineShaders(shaderContents, forceFunction, initialCondition) ==
    LET common == shaderContents[1]
        force == RegexReplace(common,
                              {i \in 1..Len(common) : MatchesForceRegex(common[i])},
                              forceFunction)
        init  == RegexReplace(force,
                              {i \in 1..Len(force) : MatchesInitRegex(force[i])},
                              initialCondition)
    IN  AppendShaders(init, shaderContents, 2)

\* the files under ../src/core/shaders/ that a run may find
CommonTexts ==
    {<<"struct Parameters { ... };">> \o df \o dg :
        df \in {<<DeclarationF>>, <<"[[visible]] " \o DeclarationF>>, <<>>,
                <<"METAL_FUNC float f(float4 p);">>},
        dg \in {<<DeclarationG>>, <<"[[visible]] " \o DeclarationG>>, <<>>,
                <<"METAL_FUNC float g(float3 p);">>}}

KernelKinds == {"include first", "include second", "no include", "include last",
                "missing"}

KernelText(name, kind) ==
    CASE kind = "include first" -> <<IncludeCommon, "kernel void " \o name, "">>
      [] kind = "include second" -> <<"// " \o name, IncludeCommon, "kernel void " \o name, "">>
      [] kind = "no include"    -> <<"kernel void " \o name, "">>
      [] kind = "include last"  -> <<"// " \o name, IncludeCommon>>
      [] kind = "missing"       -> NoFile

ForceFunction == "METAL_FUNC float f(float x, float y, float z, float t) { return 0.0f; }"
InitialCondition == "METAL_FUNC float g(float x, float y, float z) { return 1.0f; }"

InitLoader ==
    /\ \E common \in CommonTexts \cup {NoFile},
          kinds \in [2..Len(shaderFiles) -> KernelKinds] :
          loader = [directory |->
                        [i \in 1..Len(shaderFiles) |->
                            IF i = 1 THEN common
                            ELSE KernelText(shaderFiles[i], kinds[i])],
                    forceFunction |-> ForceFunction,
                    initialCondition |-> InitialCondition,
                    shaderContents |-> <<>>, pc |-> "reading",
                    result |-> <<>>, error |-> ""]
    /\ params = NoValue
    /\ heap = NoValue
    /\ UnusedEngines
    /\ UnusedSolution
    /\ red = NoValue
    /\ parser = NoValue
    /\ eng = NoValue

UnchangedButLoader ==
    UNCHANGED <<params, f, g, heap, solA, solB, hist, cpu, gpu, mtl, red, parser, eng>>

\* one turn of the loop of loadShaders: readShaderFile(file)
LoaderReadShaderFile ==
    /\ loader.pc = "reading"
    /\ Len(loader.shaderContents) < Len(shaderFiles)
    /\ LET content == loader.directory[Len(loader.shaderContents) + 1]
       IN  IF content = NoFile
           THEN loader' = [loader EXCEPT !.pc = "thrown",
                                         !.error = "Cannot open shader file"]
           ELSE loader' = [loader EXCEPT
                              !.shaderContents = Append(loader.shaderContents, content)]
    /\ UnchangedButLoader

\* return combineShaders(shaderContents, forceFunction, initialCondition)
LoaderCombineShaders ==
    /\ loader.pc = "reading"
    /\ Len(loader.shaderContents) = Len(shaderFiles)
    /\ loader' = [loader EXCEPT
                     !.pc = "returned",
                     !.result = combineShaders(loader.shaderContents,
                                               loader.forceFunction,
                                               loader.initialCondition)]
    /\ UnchangedButLoader

NextLoader == LoaderReadShaderFile \/ LoaderCombineShaders

SpecLoader == InitLoader /\ [][NextLoader]_vars

(***************************************************************************)
(* The calls one MetalHeatEquation object makes on Metal, statement by     *)
(* statement, from its construction to its destruction, and the device     *)
(* that executes the command buffers it commits.  eng.log holds the calls  *)
(* in the order they are made.                                             *)
(***************************************************************************)
MaxSteps == 2    \* max_iterations of the run ranges over 0..MaxSteps

Event(op, what) == [op |-> op, what |-> what]

\* initializeMetal, in the order of its statements: what it obtains and the
\* runtime_error it throws when it does not
InitializeMetalSteps ==
    <<Event("acquire", "device"),
      Event("acquire", "commandQueue"),
      Event("transpile", "f"),
      Event("transpile", "g"),
      Event("assemble", "shaderSource"),
      Event("acquire", "library"),
      Event("acquire", "kernelFunction"),
      Event("acquire", "variationFunction"),
      Event("acquire", "reduceFunction"),
      Event("acquire", "pipelineState"),
      Event("acquire", "pipelineStateVariation"),
      Event("acquire", "pipelineStateReduce"),
      Event("acquire", "initFunction"),
      Event("acquire", "pipelineStateInit")>>

\* setupBuffers: the buffers in the order of their newBuffer calls
SetupBuffersSteps ==
    <<Event("acquire", "currentBuffer"),
      Event("acquire", "nextBuffer"),
      Event("seed", "currentBuffer"),
      Event("acquire", "paramsBuffer"),
      Event("acquire", "variationBuffer"),
      Event("acquire", "resultBuffer"),
      Event("acquire", "debugBuffer")>>

\* ~MetalHeatEquation: the release calls in the order of its statements
DestructorReleases ==
    <<"pipelineStateInit", "pipelineState", "pipelineStateVariation",
      "pipelineStateReduce", "kernelFunction", "library", "currentBuffer",
      "nextBuffer", "paramsBuffer", "variationBuffer", "resultBuffer",
      "commandQueue", "device">>

\* a command buffer: the dispatches encoded into it and how far it has got
NoCommandBuffer == [encoded |-> <<>>, status |-> "none"]

InitEngine ==
    /\ \E maxit \in 0..MaxSteps :
          eng = [routine |-> "initializeMetal", pc |-> 1, log |-> <<>>,
                 commandBuffer |-> NoCommandBuffer, max_iterations |-> maxit,
                 iter |-> 0, error |-> ""]
    /\ params = NoValue
    /\ heap = NoValue
    /\ UnusedEngines
    /\ UnusedSolution
    /\ red = NoValue
    /\ parser = NoValue
    /\ loader = NoValue

UnchangedButEngine ==
    UNCHANGED <<params, f, g, heap, solA, solB, hist, cpu, gpu, mtl, red, parser, loader>>

Logged(e) == Append(eng.log, e)

\* one statement of initializeMetal: it obtains what it asks for, or it gets
\* nullptr (an exception, for the parser and the loader) and throws
EngInitializeMetal ==
    /\ eng.routine = "initializeMetal"
    /\ LET step == InitializeMetalSteps[eng.pc]
       IN  \/ eng' = [eng EXCEPT
                         !.log = Logged(step),
                         !.pc = IF eng.pc = Len(InitializeMetalSteps) THEN 1 ELSE eng.pc + 1,
                         !.routine = IF eng.pc = Len(InitializeMetalSteps)
                                     THEN "setupBuffers" ELSE "initializeMetal"]
           \/ eng' = [eng EXCEPT !.log = Logged(Event("fail", step.what)),
                                 !.routine = "thrown",
                                 !.error = "Failed: " \o step.what]
    /\ UnchangedButEngine

\* one statement of setupBuffers.  newBuffer gives a buffer or nullptr, and
\* no statement of setupBuffers examines the pointer: the routine goes on.
\* Seeding through a null currentBuffer writes through a null pointer, after
\* which the process goes on or is killed.
EngSetupBuffers ==
    /\ eng.routine = "setupBuffers"
    /\ LET step == SetupBuffersSteps[eng.pc]
           last == eng.pc = Len(SetupBuffersSteps)
           Goes(e) == [eng EXCEPT
                          !.log = Logged(e),
                          !.pc = IF last THEN 1 ELSE eng.pc + 1,
                          !.routine = IF last THEN "initializeSolutionGPU"
                                      ELSE "setupBuffers"]
       IN  \/ eng' = Goes(step)
           \/ /\ step.op = "acquire"
              /\ eng' = Goes(Event("fail", step.what))
           \/ /\ step.op = "seed"
              /\ \E i \in 1..Len(eng.log) : eng.log[i] = Event("fail", step.what)
              /\ eng' = [eng EXCEPT !.routine = "crashed"]
    /\ UnchangedButEngine

\* initializeSolutionGPU, in the order of its statements
InitializeSolutionGPUSteps ==
    <<Event("encode", "initialization"),
      Event("commit", "commandBuffer"),
      Event("wait", "commandBuffer"),
      Event("mirror", "U_current"),
      Event("mirror", "U_next")>>

\* waitUntilCompleted placed after the read of resultBuffer
ComputeTimestepSteps_ReadBeforeWait ==
    <<Event("write", "current_time"),
      Event("encode", "update"),
      Event("encode", "variation"),
      Event("encode", "reduction"),
      Event("commit", "commandBuffer"),
      Event("read", "resultBuffer"),
      Event("wait", "commandBuffer"),
      Event("swap", "currentBuffer")>>

\* MetalHeatEquation::compute_timestep, in the order of its statements
ComputeTimestepSteps ==
    <<Event("write", "current_time"),
      Event("encode", "update"),
      Event("encode", "variation"),
      Event("encode", "reduction"),
      Event("commit", "commandBuffer"),
      Event("wait", "commandBuffer"),
      Event("read", "resultBuffer"),
      Event("swap", "currentBuffer")>>

\* the command buffer after a statement; waitUntilCompleted returns once the
\* device has completed the buffer
CanExecute(step) == step.op = "wait" => eng.commandBuffer.status = "completed"

Executed(step) ==
    CASE step.op = "encode" ->
            [encoded |-> Append(eng.commandBuffer.encoded, step.what),
             status |-> "encoding"]
      [] step.op = "commit" -> [eng.commandBuffer EXCEPT !.status = "committed"]
      [] step.op = "wait" -> NoCommandBuffer
      [] OTHER -> eng.commandBuffer

\* one statement of initializeSolutionGPU; the constructor returns after the last
EngInitializeSolutionGPU ==
    /\ eng.routine = "initializeSolutionGPU"
    /\ LET step == InitializeSolutionGPUSteps[eng.pc]
           last == eng.pc = Len(InitializeSolutionGPUSteps)
       IN  /\ CanExecute(step)
           /\ eng' = [eng EXCEPT !.log = Logged(step),
                                 !.commandBuffer = Executed(step),
                                 !.pc = IF last THEN 1 ELSE eng.pc + 1,
                                 !.routine = IF last THEN "constructed"
                                             ELSE "initializeSolutionGPU"]
    /\ UnchangedButEngine

\* the device executes a committed command buffer, its dispatches in the
\* order of their encoding
GpuExecute ==
    /\ eng.commandBuffer.status = "committed"
    /\ eng' = [eng EXCEPT !.log = Logged(Event("complete", "commandBuffer")),
                          !.commandBuffer.status = "completed"]
    /\ UnchangedButEngine

\* solve(): the loop calls compute_timestep while iter < max_iterations
EngSolve ==
    /\ eng.routine \in {"constructed", "solve"}
    /\ IF eng.routine = "constructed" \/ eng.iter < eng.max_iterations
       THEN eng' = [eng EXCEPT
                       !.routine = IF eng.max_iterations = 0 THEN "solved"
                                   ELSE "compute_timestep",
                       !.pc = 1,
                       !.log = IF eng.max_iterations = 0 THEN eng.log
                               ELSE Logged(Event("call", "compute_timestep"))]
       ELSE eng' = [eng EXCEPT !.routine = "solved"]
    /\ UnchangedButEngine

\* one statement of compute_timestep; after the last it returns to the loop
\* of solve(), which counts the iteration
EngComputeTimestep ==
    /\ eng.routine = "compute_timestep"
    /\ LET step == ComputeTimestepSteps[eng.pc]
           last == eng.pc = Len(ComputeTimestepSteps)
       IN  /\ CanExecute(step)
           /\ eng' = [eng EXCEPT !.log = Logged(step),
                                 !.commandBuffer = Executed(step),
                                 !.pc = IF last THEN 1 ELSE eng.pc + 1,
                                 !.iter = IF last THEN eng.iter + 1 ELSE eng.iter,
                                 !.routine = IF last THEN "solve"
                                             ELSE "compute_timestep"]
    /\ UnchangedButEngine

\* ~MetalHeatEquation, on an object whose constructor has returned
EngDestroy ==
    /\ eng.routine \in {"constructed", "solved"}
    /\ eng' = [eng EXCEPT !.routine = "destroyed",
                          !.log = eng.log \o
                              [i \in 1..Len(DestructorReleases) |->
                                  Event("release", DestructorReleases[i])]]
    /\ UnchangedButEngine

NextEngine ==
    \/ EngInitializeMetal
    \/ EngSetupBuffers
    \/ EngInitializeSolutionGPU
    \/ GpuExecute
    \/ EngSolve
    \/ EngComputeTimestep
    \/ EngDestroy

SpecEngine == InitEngine /\ [][NextEngine]_vars

(***************************************************************************)
(* Specification of Solution::initialize(MTL::Buffer*, size): one Solution *)
(* (solA, zero-filled by its constructor), one external buffer of floats   *)
(* (mtl), and up to MaxBufferCalls calls with a byte count that the caller *)
(* chooses.  hist holds one record per call.                               *)
(***************************************************************************)
MaxBufferCalls == 2

\* the floats of the external buffer: a constant, a ramp, or a ramp of values
\* around 2^24, where static_cast<float> has rounded
BufferPatterns == {"ones", "ramp", "large"}

BufferContents(pattern, len) ==
    [i \in 0..(len - 1) |->
        CASE pattern = "ones"  -> 1
          [] pattern = "ramp"  -> i + 1
          [] pattern = "large" -> ToFloat(FloatPrecision + i + 1)]

\* static_cast<double>(float): every float is a double, the value is kept
UpCast(v) == v

\* gpu_data[i] for i < data.size(): an element of the buffer, or, past its
\* end, whatever the memory holds
ReadContents(buffer, n, junk) ==
    [i \in 0..(n - 1) |-> IF i < buffer.length THEN UpCast(buffer.contents[i]) ELSE junk]

InitBuffer ==
    /\ \E nx \in 1..MaxNSol, ny \in 1..MaxNSol, nz \in 1..MaxNSol :
          params = Parameters(nx, ny, nz, 1, 0)
    /\ solA = Solution(params, 1)
    /\ heap = [id \in {1} |-> Zeros(getNtot(params))]
    /\ \E pattern \in BufferPatterns,
          len \in {getNtot(params) - 1, getNtot(params), getNtot(params) + 1} :
          mtl = [contents |-> BufferContents(pattern, len), length |-> len]
    /\ hist = <<>>
    /\ solB = NoValue
    /\ f = NoValue /\ g = NoValue /\ cpu = NoValue /\ gpu = NoValue
    /\ red = NoValue
    /\ parser = NoValue
    /\ loader = NoValue
    /\ eng = NoValue

\* solA.initialize(buffer, size) with a byte count below, at or above
\* data.size() * sizeof(float)
BufInitialize ==
    \E size \in {0, (solA.size - 1) * SizeofFloat, solA.size * SizeofFloat,
                 solA.size * SizeofFloat + 1, (solA.size + 1) * SizeofFloat},
       junk \in {0, Sentinel} :
        LET r == InitializeFromBuffer(heap, solA, ReadContents(mtl, solA.size, junk), size)
        IN  /\ Len(hist) < MaxBufferCalls
            /\ heap' = r.heap
            /\ hist' = Append(hist, [size |-> size, thrown |-> r.thrown,
                                     before |-> heap, after |-> r.heap])
            /\ UNCHANGED <<params, f, g, solA, solB, cpu, gpu, mtl, red, parser, loader, eng>>

NextBuffer == BufInitialize

SpecBuffer == InitBuffer /\ [][NextBuffer]_vars

(***************************************************************************)
(* The threads of the update and variation dispatches of one               *)
(* compute_timestep, one thread at a time in any order.  A thread that     *)
(* returns at the bounds check touches no memory and is left out of the    *)
(* schedule.  gpu.ran holds the threads of the running dispatch that have  *)
(* finished, gpu.written the offsets they wrote, gpu.twice whether one of  *)
(* them wrote an offset already written in the dispatch.                   *)
(***************************************************************************)
MaxGrid    == 4    \* n_x, n_y, n_z range over MinN..MaxGrid
MaxWriters == 4    \* grids with at most MaxWriters threads past the bounds check

\* the floats of currentBuffer before the step
StateContents(kind, n) ==
    [o \in 0..(n - 1) |->
        CASE kind = "ones"   -> 1
          [] kind = "ramp"   -> o
          [] kind = "square" -> (o * o) % 7]

\* the threads of dispatchThreads(gridSize) that pass the bounds check
ActiveThreads(prm) ==
    {t \in GridThreads(prm.nx, prm.ny, prm.nz) : ~SkipBoundary(prm, t[1], t[2], t[3])}

InitThreads ==
    /\ \E nx \in MinN..MaxGrid, ny \in MinN..MaxGrid, nz \in MinN..MaxGrid :
          /\ num_interior_points(Parameters(nx, ny, nz, 1, 1)) <= MaxWriters
          /\ params = Parameters(nx, ny, nz, 1, 1)
    /\ f \in FSet
    /\ \E kind \in {"ones", "ramp", "square"} :
          mtl = [state0    |-> StateContents(kind, getNtot(params)),
                 state1    |-> Zeros(getNtot(params)),
                 params    |-> GPUParameters(params),
                 variation |-> Zeros(num_interior_points(params))]
    /\ gpu = [pc |-> "update", currentBuffer |-> "state0", nextBuffer |-> "state1",
              ran |-> {}, written |-> {}, twice |-> FALSE]
    /\ g = NoValue
    /\ heap = NoValue
    /\ cpu = NoValue
    /\ UnusedSolution
    /\ red = NoValue
    /\ parser = NoValue
    /\ loader = NoValue
    /\ eng = NoValue

\* the buffer after the writes W of one thread
ThreadWrites(buf, W) ==
    [o \in DOMAIN buf |-> IF \E w \in W : w[1] = o
                          THEN (CHOOSE w \in W : w[1] = o)[2] ELSE buf[o]]

\* a thread of an update that stores into the buffer it reads
ThreadUpdate_InPlace ==
    /\ gpu.pc = "update"
    /\ \E t \in ActiveThreads(mtl.params) \ gpu.ran :
          LET W == heat_equation_kernel(mtl[gpu.currentBuffer], mtl.params, f, t)
              offsets == {w[1] : w \in W}
          IN  /\ mtl' = [mtl EXCEPT ![gpu.currentBuffer] = ThreadWrites(@, W)]
              /\ gpu' = [gpu EXCEPT !.ran = @ \cup {t},
                                    !.written = @ \cup offsets,
                                    !.twice = @ \/ (offsets \cap gpu.written # {})]
    /\ UNCHANGED <<params, f, g, heap, solA, solB, hist, cpu, red, parser, loader, eng>>

\* one thread of the update dispatch
ThreadUpdate ==
    /\ gpu.pc = "update"
    /\ \E t \in ActiveThreads(mtl.params) \ gpu.ran :
          LET W == heat_equation_kernel(mtl[gpu.currentBuffer], mtl.params, f, t)
              offsets == {w[1] : w \in W}
          IN  /\ mtl' = [mtl EXCEPT ![gpu.nextBuffer] = ThreadWrites(@, W)]
              /\ gpu' = [gpu EXCEPT !.ran = @ \cup {t},
                                    !.written = @ \cup offsets,
                                    !.twice = @ \/ (offsets \cap gpu.written # {})]
    /\ UNCHANGED <<params, f, g, heap, solA, solB, hist, cpu, red, parser, loader, eng>>

\* one thread of the variation dispatch
ThreadVariation ==
    /\ gpu.pc = "variation"
    /\ \E t \in ActiveThreads(mtl.params) \ gpu.ran :
          LET W == compute_variation_kernel(mtl[gpu.currentBuffer], mtl.params, f, t).variation
              offsets == {w[1] : w \in W}
          IN  /\ mtl' = [mtl EXCEPT !.variation = ThreadWrites(@, W)]
              /\ gpu' = [gpu EXCEPT !.ran = @ \cup {t},
                                    !.written = @ \cup offsets,
                                    !.twice = @ \/ (offsets \cap gpu.written # {})]
    /\ UNCHANGED <<params, f, g, heap, solA, solB, hist, cpu, red, parser, loader, eng>>

\* the last thread of a dispatch has finished: the next encoder of the
\* command buffer runs
DispatchRetire ==
    /\ gpu.pc \in {"update", "variation"}
    /\ gpu.ran = ActiveThreads(mtl.params)
    /\ gpu' = [gpu EXCEPT !.pc = IF gpu.pc = "update" THEN "variation" ELSE "retired",
                          !.ran = IF gpu.pc = "update" THEN {} ELSE @,
                          !.written = IF gpu.pc = "update" THEN {} ELSE @,
                          !.twice = IF gpu.pc = "update" THEN FALSE ELSE @]
    /\ UNCHANGED <<params, f, g, heap, solA, solB, hist, cpu, mtl, red, parser, loader, eng>>

NextThreads == ThreadUpdate \/ ThreadVariation \/ DispatchRetire

SpecThreads == InitThreads /\ [][NextThreads]_vars

(***************************************************************************)
(* The simulation time of a run of solve(), on the host path               *)
(* (HeatEquation) and on the device path (MetalHeatEquation): cpu holds    *)
(* the object's current_time, the current_time field of the packed         *)
(* parameters, and the time the force function was last evaluated with.    *)
(***************************************************************************)
MaxTimeDt == 3    \* dt ranges over 1..MaxTimeDt and over 2^24 + 1..MaxTimeDt

\* time steps that a float holds exactly, and time steps that it rounds
TimeSteps == (1..MaxTimeDt) \cup {FloatPrecision + d : d \in 1..MaxTimeDt}

InitTime ==
    /\ \E dt \in TimeSteps, maxit \in 0..MaxSteps :
          params = Parameters(MinN, MinN, MinN, dt, maxit)
    /\ \E path \in {"host", "device"} :
          cpu = [path |-> path, current_time |-> 0, iter |-> 0,
                 packed |-> 0, force_time |-> <<>>, pc |-> "loop"]
    /\ f = NoValue /\ g = NoValue /\ gpu = NoValue /\ mtl = NoValue
    /\ heap = NoValue
    /\ UnusedSolution
    /\ red = NoValue
    /\ parser = NoValue
    /\ loader = NoValue
    /\ eng = NoValue

\* compute_timestep: the host sweep calls f(..., current_time); the device
\* path stores static_cast<float>(current_time) in the packed parameters and
\* its kernels call f(..., params.current_time)
TimeComputeTimestep ==
    /\ cpu.pc = "loop"
    /\ cpu.iter < params.max_iterations
    /\ LET packed == IF cpu.path = "device" THEN ToFloat(cpu.current_time)
                     ELSE cpu.packed
       IN  cpu' = [cpu EXCEPT
                      !.packed = packed,
                      !.force_time = IF cpu.path = "device" THEN <<packed>>
                                     ELSE <<cpu.current_time>>,
                      !.pc = "computed"]
    /\ UNCHANGED <<params, f, g, heap, solA, solB, hist, gpu, mtl, red, parser, loader, eng>>

\* a loop that advances the time twice per step
TimeAdvance_Twice ==
    /\ cpu.pc = "computed"
    /\ cpu' = [cpu EXCEPT !.current_time = @ + 2 * params.dt, !.iter = @ + 1,
                          !.pc = "loop"]
    /\ UNCHANGED <<params, f, g, heap, solA, solB, hist, gpu, mtl, red, parser, loader, eng>>

\* current_time += dt; ++iter
TimeAdvance ==
    /\ cpu.pc = "computed"
    /\ cpu' = [cpu EXCEPT !.current_time = @ + params.dt, !.iter = @ + 1,
                          !.pc = "loop"]
    /\ UNCHANGED <<params, f, g, heap, solA, solB, hist, gpu, mtl, red, parser, loader, eng>>

TimeReturn ==
    /\ cpu.pc = "loop"
    /\ ~(cpu.iter < params.max_iterations)
    /\ cpu' = [cpu EXCEPT !.pc = "done"]
    /\ UNCHANGED <<params, f, g, heap, solA, solB, hist, gpu, mtl, red, parser, loader, eng>>

NextTime == TimeComputeTimestep \/ TimeAdvance \/ TimeReturn

SpecTime == InitTime /\ [][NextTime]_vars

(***************************************************************************)
(* Claims about the Solution API (checked under SpecSolution).             *)
(***************************************************************************)
\* decoding an offset with the strides the flattening uses (Sx = nx, Sy = ny)
Decode(s, o) == <<o % s.nx, (o \div s.nx) % s.ny, o \div (s.nx * s.ny)>>

\* C1: the flattening (i,j,k) -> i + Sx*(j + Sy*k) used by Solution is a
\* bijection on the triples 0<=i<=nx, 0<=j<=ny, 0<=k<=nz: no two distinct
\* triples share a storage offset, and decoding the offset gives the triple back.
C1_FlattenBijection ==
    \A t \in Points(solA) :
        /\ Decode(solA, Index(solA, t[1], t[2], t[3])) = t
        /\ \A u \in Points(solA) :
              Index(solA, t[1], t[2], t[3]) = Index(solA, u[1], u[2], u[3]) => t = u

LastCall == hist[1].op

\* C2: after initialize(g), reading the field at any grid point (i,j,k) gives
\* g at that point's own coordinate (i*dx, j*dy, k*dz).
C2_InitializeStoresG ==
    (hist # <<>> /\ LastCall.name = "initialize") =>
        LET s == Target(LastCall.on)
        IN  \A t \in Points(s) :
               Read(heap, s, t[1], t[2], t[3]) =
                  ApplyG(LastCall.g, Times(t[1], s.dx), Times(t[2], s.dy),
                         Times(t[3], s.dz))

\* what a Solution reads at every grid point
Contents(h, s) == [t \in Points(s) |-> Read(h, s, t[1], t[2], t[3])]

\* C9: after a.swap(b) every read of a gives what b held and every read of b
\* what a held; the two storages change owner and no element is copied, so
\* the two objects never share storage and a write made to one after the swap
\* leaves the other as it was; a second swap restores both objects.
C9_SwapExchangesOwnership ==
    /\ solA.data # solB.data
    /\ (hist # <<>> /\ LastCall.name = "swap") =>
          /\ Contents(heap, solA) = Contents(hist[1].heap, hist[1].b)
          /\ Contents(heap, solB) = Contents(hist[1].heap, hist[1].a)
          /\ solA.data = hist[1].b.data
          /\ solB.data = hist[1].a.data
          /\ heap = hist[1].heap
    /\ (Len(hist) = 2 /\ LastCall.name = "write" /\ hist[2].op.name = "swap") =>
          IF LastCall.on = "a"
          THEN Contents(heap, solB) = Contents(hist[1].heap, hist[1].b)
          ELSE Contents(heap, solA) = Contents(hist[1].heap, hist[1].a)
    /\ (Len(hist) = 2 /\ LastCall.name = "swap" /\ hist[2].op.name = "swap") =>
          /\ solA = hist[2].a
          /\ solB = hist[2].b
          /\ heap = hist[2].heap

\* two swaps in a row of two fields whose contents differ
C9_Witness ==
    /\ Len(hist) = 2
    /\ LastCall.name = "swap"
    /\ hist[2].op.name = "swap"
    /\ Contents(heap, solA) # Contents(heap, solB)

(***************************************************************************)
(* Claims about the host path (checked under SpecHost).                    *)
(***************************************************************************)
\* the heap right after HeatEquation's constructor, for the run's inputs
HostInitialHeap ==
    Construct([id \in {1, 2} |-> Zeros(getNtot(params))],
              Solution(params, 1), Solution(params, 2), g, FALSE)

IsBoundary(s, t) == \/ t[1] \in {0, s.nx} \/ t[2] \in {0, s.ny} \/ t[3] \in {0, s.nz}

\* C3: with f identically zero and a constant initial condition c, every
\* step of the host solver returns a total variation of 0 and every grid value
\* of the current field, boundary and interior, stays c.
C3_HostSteadyState ==
    (f = "zero" /\ g[1] = "const") =>
        /\ cpu.variation = 0
        /\ \A t \in Points(cpu.U_current) :
              Read(heap, cpu.U_current, t[1], t[2], t[3]) = g[2]

\* two steps of a run with f = 0 and the constant 1
C3_Witness ==
    /\ f = "zero"
    /\ g = <<"const", 1>>
    /\ cpu.calls >= 2

\* the storage offsets one sweep of compute_timestep writes
SweepOffsets ==
    {Index(cpu.U_next, SweepPoint(params, q)[1], SweepPoint(params, q)[2],
           SweepPoint(params, q)[3]) : q \in 0..(SweepCount(params) - 1)}

\* C5: after initialization and after any number of steps, every boundary
\* point of the current field reads the value it read right after
\* initialization, and no sweep writes a storage element a boundary point reads.
C5_HostBoundaryFixed ==
    LET h0      == HostInitialHeap
        written == SweepOffsets
    IN  \A t \in Points(cpu.U_current) :
            IsBoundary(cpu.U_current, t) =>
                /\ Read(heap, cpu.U_current, t[1], t[2], t[3]) =
                      Read(h0, Solution(params, 1), t[1], t[2], t[3])
                /\ Read(heap, cpu.U_next, t[1], t[2], t[3]) =
                      Read(h0, Solution(params, 2), t[1], t[2], t[3])
                /\ Index(cpu.U_current, t[1], t[2], t[3]) \notin written

\* two steps have run, the boundary is not zero and the interior has moved
C5_Witness ==
    /\ cpu.calls >= 2
    /\ Read(heap, cpu.U_current, params.n_x, 0, 0) # 0
    /\ Read(heap, cpu.U_current, 1, 1, 1) #
          Read(HostInitialHeap, Solution(params, 1), 1, 1, 1)

(***************************************************************************)
(* Claims about the device path (checked under SpecDevice).                *)
(***************************************************************************)
\* the element of a state buffer that the kernels address for a grid point
DeviceIndex(t) == t[1] + params.n_x * (t[2] + params.n_y * t[3])

GridPoints == (0..params.n_x) \X (0..params.n_y) \X (0..params.n_z)

IsGridBoundary(t) ==
    \/ t[1] \in {0, params.n_x} \/ t[2] \in {0, params.n_y} \/ t[3] \in {0, params.n_z}

Constructed == gpu.pc # "constructing"

\* C4: with f identically zero and a constant initial condition c, after the
\* construction of MetalHeatEquation and after every compute_timestep the
\* returned total variation is 0 and every element of the current device
\* buffer (every element a grid point addresses) is c.
C4_DeviceSteadyState ==
    (Constructed /\ f = "zero" /\ g[1] = "const") =>
        /\ gpu.variation = 0
        /\ \A t \in GridPoints : mtl[gpu.currentBuffer][DeviceIndex(t)] = g[2]

\* C6: after construction and after any number of compute_timestep calls,
\* every boundary element of the current device buffer holds the value the
\* initialization dispatch wrote for it (the value read back into the host
\* field right after that dispatch).
C6_DeviceBoundaryFixed ==
    Constructed =>
        \A t \in GridPoints :
            IsGridBoundary(t) =>
                mtl[gpu.currentBuffer][DeviceIndex(t)] =
                    heap[gpu.U_current.data][DeviceIndex(t)]

\* the host engine after n iterations of solve(): <<object, heap>>
RECURSIVE HostRun(_, _, _)
HostRun(o, h, n) ==
    IF n = 0 THEN <<o, h>>
    ELSE LET r == SolveIteration(o, h, params, f)
         IN  IF DOMAIN r[2] = DOMAIN h THEN HostRun(r[1], r[2], n - 1) ELSE r

\* C7: for the same grid, f and g, after every step n >= 1 the host and the
\* device compute_timestep return the same total variation and the two paths
\* hold the same value at every grid point.
C7_HostDeviceParity ==
    (Constructed /\ gpu.calls >= 1) =>
        LET host == HostRun(HeatEquation(params, 1, 2), HostInitialHeap, gpu.calls)
        IN  /\ gpu.variation = host[1].variation
            /\ \A t \in GridPoints :
                  mtl[gpu.currentBuffer][DeviceIndex(t)] =
                      Read(host[2], host[1].U_current, t[1], t[2], t[3])

(***************************************************************************)
(* Claims about the reduction (checked under SpecReduce).                  *)
(***************************************************************************)
\* C8: for every count N >= 1 of interior points, the host sum of the
\* ceil(N/256) partial sums that reduce_variation_kernel leaves equals the sum
\* of the variation buffer entries 0..N-1.
C8_ReductionSum ==
    red.pc = "summed" =>
        red.total_variation = SumResult(red.variation, 0, red.total_elements - 1)

(***************************************************************************)
(* Claims about FunctionParser (checked under SpecParser).                 *)
(***************************************************************************)
SignatureMismatch(signature, requiredParams) ==
    \/ Len(signature.parameters) # Len(requiredParams)
    \/ \E i \in 1..Len(requiredParams) :
          i <= Len(signature.parameters)
              /\ signature.parameters[i].type # requiredParams[i]

HasReturn(function) == \E i \in 1..Len(function) : function[i] = "return"

\* C11: an extracted function whose signature is valid and whose body holds
\* no return statement makes parseFile fail with a missing-return error: it
\* is never converted and no ParsedFunction is returned for it.
C11_MissingReturnRejected ==
    (parser.signature # <<>>
        /\ ~SignatureMismatch(parser.signature[1], parser.options.requiredParams)
        /\ ~HasReturn(parser.originalFunction)) =>
        /\ parser.pc # "returned"
        /\ parser.metalFunction = <<>>
        /\ parser.result = <<>>

(***************************************************************************)
(* Claims about ShaderLoader (checked under SpecLoader).                   *)
(***************************************************************************)
Holds(text, piece) == \E i \in 1..Len(text) : text[i] = piece

\* C12: when common.metal (the first template) holds no forward declaration
\* matching f, or none matching g, loadShaders fails; it never returns a
\* combined source in which one of the two user functions is not spliced in.
C12_AssemblerFailsWithoutDeclaration ==
    loader.pc = "returned" =>
        /\ \E i \in 1..Len(loader.shaderContents[1]) :
              MatchesForceRegex(loader.shaderContents[1][i])
        /\ \E i \in 1..Len(loader.shaderContents[1]) :
              MatchesInitRegex(loader.shaderContents[1][i])
        /\ Holds(loader.result, loader.forceFunction)
        /\ Holds(loader.result, loader.initialCondition)

\* the lines of text from the i-th on, without those that hold the include token
RECURSIVE WithoutIncludeLines(_, _)
WithoutIncludeLines(text, i) ==
    IF i > Len(text) THEN <<>>
    ELSE (IF HoldsInclude(text[i]) THEN <<>> ELSE <<text[i]>>)
             \o WithoutIncludeLines(text, i + 1)

\* the modules from the i-th on, each without its include line, one after
\* the other
RECURSIVE StrippedModules(_, _)
StrippedModules(shaderContents, i) ==
    IF i > Len(shaderContents) THEN <<>>
    ELSE WithoutIncludeLines(shaderContents[i], 1) \o StrippedModules(shaderContents, i + 1)

\* C25: for every module after the first, the combined source holds the
\* module's text with exactly the line of the include token removed and all
\* the rest kept (also when the directive is not the first line, or is the
\* last line); the modules come in the order common, update, variation,
\* reduction, initialization, each on new lines, and the output holds no
\* include token.
C25_IncludeStripping ==
    loader.pc = "returned" =>
        LET common == loader.shaderContents[1]
            result == loader.result
        IN  /\ Len(result) >= Len(common)
            /\ SubSeq(result, Len(common) + 1, Len(result))
                   = StrippedModules(loader.shaderContents, 2)
            /\ \A i \in 1..Len(result) : ~HoldsInclude(result[i])

(***************************************************************************)
(* Claims about the rewrite (checked under SpecParser).                    *)
(***************************************************************************)
\* a token spelled with digits and at most one point between them
IsBareLiteral(t) ==
    /\ t \in DOMAIN Spelling
    /\ \A i \in 1..Len(Spelling[t]) : IsDigit(Spelling[t][i]) \/ Spelling[t][i] = "."
    /\ Cardinality({i \in 1..Len(Spelling[t]) : Spelling[t][i] = "."}) <= 1
    /\ IsDigit(Spelling[t][Len(Spelling[t])])

HostKeywords == {"inline", "double"}

\* C13: convertToMetalFunction appends the suffix f exactly once to every
\* bare numeric literal (integer or decimal) and leaves unchanged the digits
\* embedded in an identifier (x2, a_1), a literal already followed by an
\* identifier character (1.0f) and, by this rule, all other text.
C13_LiteralSuffix ==
    parser.pc = "returned" =>
        \A i \in 1..Len(parser.originalFunction) :
            LET t == parser.originalFunction[i]
            IN  /\ IsBareLiteral(t) => parser.metalFunction[i] = t \o "f"
                /\ (~IsBareLiteral(t) /\ t \notin HostKeywords \cup mathFunctions) =>
                       parser.metalFunction[i] = t


IsCall(text, i) == text[i] \in mathFunctions /\ i < Len(text) /\ text[i + 1] = "("

\* C14: in the output of convertToMetalFunction every call of sin, cos, exp,
\* pow, sqrt, log or abs (the whole identifier, then "(") carries the prefix
\* metal:: exactly once, and an identifier that only contains such a name
\* (fabs, sinx) or that no "(" follows is not rewritten.
C14_MathNamespace ==
    parser.pc = "returned" =>
        \A i \in 1..Len(parser.originalFunction) :
            LET t == parser.originalFunction[i]
            IN  /\ IsCall(parser.originalFunction, i) =>
                      parser.metalFunction[i] = "metal::" \o t
                /\ (~IsCall(parser.originalFunction, i)
                       /\ t \notin HostKeywords \cup DOMAIN Spelling) =>
                      parser.metalFunction[i] = t

\* a converted body with calls of abs and exp, with fabs and sinx, and with a
\* sin that no "(" follows
C14_Witness ==
    /\ parser.pc = "returned"
    /\ \E i \in 1..Len(parser.originalFunction) :
          parser.originalFunction[i] = "abs" /\ parser.metalFunction[i] = "metal::abs"
    /\ \E i \in 1..Len(parser.originalFunction) :
          parser.originalFunction[i] = "fabs" /\ parser.metalFunction[i] = "fabs"
    /\ \E i \in 1..Len(parser.originalFunction) :
          /\ parser.originalFunction[i] = "sin"
          /\ ~IsCall(parser.originalFunction, i)
          /\ parser.metalFunction[i] = "sin"


\* the text holds  [inline] double name ( ... ) ... { ... }  for the requested
\* name: a parenthesised list without ")", then neither ";" nor "{" up to the
\* opening brace, then a closing brace
ContainsDefinition(content, options) ==
    LET head == (IF options.requireInline THEN <<"inline">> ELSE <<>>)
                    \o <<"double", options.functionName>>
        n == Len(content)
    IN  \E i \in 1..n :
            /\ i + Len(head) <= n
            /\ SubSeq(content, i, i + Len(head) - 1) = head
            /\ content[i + Len(head)] = "("
            /\ \E c \in (i + Len(head) + 1)..n :
                   /\ content[c] = ")"
                   /\ \A k \in (i + Len(head) + 1)..(c - 1) : content[k] # ")"
                   /\ \E b \in (c + 1)..n :
                          /\ content[b] = "{"
                          /\ \A k \in (c + 1)..(b - 1) : content[k] \notin {";", "{"}
                          /\ \E e \in (b + 1)..n : content[e] = "}"

\* C18: when the text holds no definition of the requested name (with the
\* inline qualifier when requireInline is set), extraction fails with the
\* not-found error, and no signature is parsed, nothing is validated and
\* nothing is rewritten.
C18_ExtractionNotFound ==
    (/\ parser.content # NoFile
     /\ parser.pc \notin {"called", "read"}
     /\ ~ContainsDefinition(parser.content, parser.options))
    => /\ parser.pc = "thrown"
       /\ parser.error = "Cannot find function"
       /\ parser.originalFunction = <<>>
       /\ parser.signature = <<>>
       /\ parser.metalFunction = <<>>
       /\ parser.result = <<>>

\* the file defines f without the inline qualifier that the options require,
\* and parseFile has thrown the not-found error
C18_Witness ==
    /\ parser.pc = "thrown"
    /\ parser.error = "Cannot find function"
    /\ parser.options.requireInline
    /\ \E i \in 1..(Len(parser.content) - 1) :
           parser.content[i] = "double" /\ parser.content[i + 1] = "f"
    /\ parser.signature = <<>>
    /\ parser.metalFunction = <<>>

(***************************************************************************)
(* Claims about the engine's resources and steps (checked under            *)
(* SpecEngine).                                                            *)
(***************************************************************************)

\* number of events <<op, what>> in the log
RECURSIVE CountEvents(_, _, _)
CountEvents(log, e, i) ==
    IF i > Len(log) THEN 0
    ELSE (IF log[i] = e THEN 1 ELSE 0) + CountEvents(log, e, i + 1)

\* the resource classes of the teardown, children before owners
TeardownRank(what) ==
    CASE what \in {"pipelineStateInit", "pipelineState",
                   "pipelineStateVariation", "pipelineStateReduce"} -> 1
      [] what = "library" -> 2
      [] what \in {"currentBuffer", "nextBuffer", "paramsBuffer",
                   "variationBuffer", "resultBuffer", "debugBuffer"} -> 3
      [] what = "commandQueue" -> 4
      [] what = "device" -> 5
      [] OTHER -> 0

\* C15: destroying a fully constructed engine releases every pipeline, the
\* library, every buffer of setupBuffers (the diagnostic buffer included),
\* the queue and the device, each exactly once, in the order pipelines,
\* library, buffers, queue, device.
C15_TeardownReleasesAll ==
    eng.routine = "destroyed" =>
        LET log == eng.log
            acquired == {log[i].what : i \in {j \in 1..Len(log) :
                            /\ log[j].op = "acquire"
                            /\ TeardownRank(log[j].what) > 0}}
        IN  /\ \A r \in acquired : CountEvents(log, Event("release", r), 1) = 1
            /\ \A i, j \in 1..Len(log) :
                   (/\ i < j
                    /\ log[i].op = "release" /\ log[j].op = "release"
                    /\ TeardownRank(log[i].what) > 0
                    /\ TeardownRank(log[j].what) > 0)
                   => TeardownRank(log[i].what) <= TeardownRank(log[j].what)


(***************************************************************************)
(* Claims about the loop of solve() (checked under SpecHostFair).          *)
(***************************************************************************)

\* C16: for every max_iterations >= 0, solve() returns, after exactly
\* max_iterations calls of compute_timestep, whatever variation the calls
\* returned (0 included): the variation neither shortens nor extends the loop.
C16_FixedIterationCount ==
    /\ [](cpu.calls = cpu.iter /\ cpu.calls <= params.max_iterations)
    /\ [](cpu.pc = "done" => cpu.calls = params.max_iterations)
    /\ <>(cpu.pc = "done")

\* solve() has returned after MaxIter calls although the data were steady and
\* compute_timestep returned a variation of 0
C16_Witness ==
    /\ cpu.pc = "done"
    /\ params.max_iterations = MaxIter
    /\ cpu.calls = MaxIter
    /\ f = "zero"
    /\ g[1] = "const"
    /\ cpu.variation = 0


(***************************************************************************)
(* Claims about Solution::initialize(MTL::Buffer*, size) (checked under    *)
(* SpecBuffer).                                                            *)
(***************************************************************************)

\* C17: initialize(buffer, size) fails with the size-mismatch error whenever
\* size differs from 4 * element count, and then no element of the field is
\* modified; when size matches, every field element e equals the up-cast of
\* element e of the buffer on return.
C17_ExternalBufferInitialize ==
    \A c \in 1..Len(hist) :
        LET call == hist[c]
        IN  IF call.size # solA.size * 4
            THEN call.thrown /\ call.after = call.before
            ELSE /\ ~call.thrown
                 /\ \A e \in 0..(solA.size - 1) :
                        e < mtl.length =>
                            call.after[solA.data][e] = UpCast(mtl.contents[e])

\* a call with a wrong byte count has failed on a field that differs from the
\* buffer, and a call with the right byte count has then copied a buffer
\* holding a rounded float
C17_Witness ==
    /\ Len(hist) = 2
    /\ hist[1].size # solA.size * 4
    /\ hist[1].thrown
    /\ hist[2].size = solA.size * 4
    /\ mtl.length = solA.size
    /\ mtl.contents[0] = FloatPrecision
    /\ heap[solA.data][0] = FloatPrecision


\* the events of the call of compute_timestep entered at position p of the
\* log: those up to the next call or the first release
CallEnd(log, p) ==
    LET later == {q \in (p + 1)..Len(log) :
                     log[q] = Event("call", "compute_timestep") \/ log[q].op = "release"}
    IN  IF later = {} THEN Len(log) + 1
        ELSE CHOOSE q \in later : \A r \in later : q <= r

\* one step: the time, three dispatches in one command buffer, one commit,
\* the completion on the device, then the read of the partial sums and the swap
StepOrder ==
    <<Event("write", "current_time"),
      Event("encode", "update"),
      Event("encode", "variation"),
      Event("encode", "reduction"),
      Event("commit", "commandBuffer"),
      Event("complete", "commandBuffer"),
      Event("wait", "commandBuffer"),
      Event("read", "resultBuffer"),
      Event("swap", "currentBuffer")>>

\* C19: in every compute_timestep the current time is written first, then
\* exactly the three dispatches update, variation, reduction are encoded in
\* that order into one command buffer, which is committed once; the host
\* reads the partial sums only after the submission has completed and swaps
\* the buffers only after that read; no dispatch of the next step is encoded
\* before the step has completed.
C19_DispatchOrdering ==
    LET log == eng.log
    IN  /\ \A p \in 1..Len(log) :
               log[p] = Event("call", "compute_timestep") =>
                   LET end == CallEnd(log, p)
                       events == SubSeq(log, p + 1, end - 1)
                   IN  /\ Len(events) <= Len(StepOrder)
                       /\ events = SubSeq(StepOrder, 1, Len(events))
                       /\ end <= Len(log) => events = StepOrder
        /\ (eng.routine = "compute_timestep"
                /\ eng.commandBuffer.status \in {"committed", "completed"})
           => eng.commandBuffer.encoded = <<"update", "variation", "reduction">>

\* two steps have run to their end
C19_Witness ==
    /\ eng.routine = "solved"
    /\ eng.iter = 2
    /\ CountEvents(eng.log, Event("call", "compute_timestep"), 1) = 2
    /\ CountEvents(eng.log, Event("swap", "currentBuffer"), 1) = 2


\* the stage of construction an event belongs to: 1 device and queue,
\* 2 functions transpiled and kernel source assembled, 3 library compiled,
\* 4 pipelines resolved, 5 buffers allocated and seeded, 6 initialization
\* kernel dispatched and completed, 7 host mirror refreshed
StageOf(e) ==
    CASE e.what \in {"device", "commandQueue"} -> 1
      [] e.op \in {"transpile", "assemble"} -> 2
      [] e.what = "library" -> 3
      [] e.what \in {"kernelFunction", "variationFunction", "reduceFunction",
                     "initFunction", "pipelineStateInit", "pipelineState",
                     "pipelineStateVariation", "pipelineStateReduce"} -> 4
      [] e.what \in {"currentBuffer", "nextBuffer", "paramsBuffer",
                     "variationBuffer", "resultBuffer", "debugBuffer"} -> 5
      [] e.op = "mirror" -> 7
      [] OTHER -> 6

\* the events of the constructor: those before the first call of
\* compute_timestep and the first release
ConstructionEnd(log) ==
    LET later == {q \in 1..Len(log) :
                     log[q] = Event("call", "compute_timestep") \/ log[q].op = "release"}
    IN  IF later = {} THEN Len(log) + 1
        ELSE CHOOSE q \in later : \A r \in later : q <= r

\* the stages of the constructor come in their order, and a constructed
\* engine has passed through each of them
StagesInOrder ==
    LET log == eng.log
        end == ConstructionEnd(log)
    IN  /\ \A i, j \in 1..(end - 1) : i < j => StageOf(log[i]) <= StageOf(log[j])
        /\ eng.routine \notin {"initializeMetal", "setupBuffers",
                               "initializeSolutionGPU", "thrown", "crashed"}
           => \A s \in 1..7 : \E i \in 1..(end - 1) : StageOf(log[i]) = s

\* a failure raises, and nothing runs after it
FailureRaises ==
    \A i \in 1..Len(eng.log) :
        eng.log[i].op = "fail" => i = Len(eng.log) /\ eng.routine = "thrown"

\* compute_timestep is entered only after the initialization dispatch has
\* completed and the mirror is refreshed, and never after a release
SteppingWhenInitialized ==
    LET log == eng.log
    IN  \A p \in 1..Len(log) :
            log[p] = Event("call", "compute_timestep") =>
                /\ \E c \in 1..(p - 1) :
                       /\ log[c] = Event("complete", "commandBuffer")
                       /\ \E e \in 1..(c - 1) : log[e] = Event("encode", "initialization")
                       /\ \E r \in (c + 1)..(p - 1) : log[r] = Event("mirror", "U_next")
                /\ \A r \in 1..(p - 1) : log[r].op # "release"

\* C20: construction passes through the stages device+queue, functions
\* transpiled and source assembled, library, pipelines, buffers allocated and
\* seeded, initialization dispatched and completed, mirror refreshed, in that
\* order; a failure at any stage raises and no later stage runs;
\* compute_timestep runs only on an engine whose initialization dispatch has
\* completed, and never after release.
C20_EngineLifecycle ==
    /\ StagesInOrder
    /\ FailureRaises
    /\ SteppingWhenInitialized


(***************************************************************************)
(* Claims about the threads of the device dispatches (checked under        *)
(* SpecDevice).                                                            *)
(***************************************************************************)

\* the points the host sweep updates: 1 <= i < nx, 1 <= j < ny, 1 <= k < nz
HostInterior ==
    (1..(params.n_x - 1)) \X (1..(params.n_y - 1)) \X (1..(params.n_z - 1))

\* the threads of the update dispatch that write next_state, and those of the
\* variation dispatch that write variation_buffer
UpdateWriters ==
    {t \in GridThreads(mtl.params.nx, mtl.params.ny, mtl.params.nz) :
        heat_equation_kernel(mtl[gpu.currentBuffer], mtl.params, f, t) # {}}

VariationWriters ==
    {t \in GridThreads(mtl.params.nx, mtl.params.ny, mtl.params.nz) :
        compute_variation_kernel(mtl[gpu.currentBuffer], mtl.params, f, t).variation # {}}

\* C21: for nx, ny, nz >= 2 the points for which heat_equation_kernel writes
\* next, and compute_variation_kernel a variation, in the dispatched grid,
\* are exactly the interior points the host updates, 1 <= i < nx, 1 <= j < ny,
\* 1 <= k < nz: no interior point is skipped, no boundary point is written.
C21_DeviceInteriorSet ==
    gpu.stage \in {"BuffersReady", "FieldInitialized"} =>
        /\ UpdateWriters = HostInterior
        /\ VariationWriters = HostInterior


\* C24: in the initialization dispatch over (nx+1)*(ny+1)*(nz+1) threads no
\* two threads write the same element of the state buffer, so its contents
\* after the dispatch do not depend on the order of the threads and equal,
\* element for element, what the host Solution::initialize(g) produces.
C24_InitializationDeterministic ==
    gpu.stage = "FieldInitialized" =>
        LET prm == mtl.params
            threads == GridThreads(prm.nx + 1, prm.ny + 1, prm.nz + 1)
            host == initialize([id \in {1} |-> Zeros(getNtot(params))],
                               Solution(params, 1), g)[1]
        IN  /\ \A t, u \in threads :
                   t # u => \A w \in initialize_solution_kernel(prm, g, t),
                               x \in initialize_solution_kernel(prm, g, u) : w[1] # x[1]
            /\ Cardinality(DispatchOutcomes(Zeros(getNtot(params)),
                                            InitializeWrites(prm, g))) = 1
            /\ \A o \in 0..(getNtot(params) - 1) :
                   (gpu.iter = 0 => mtl[gpu.currentBuffer][o] = ToFloat(host[o]))

(***************************************************************************)
(* Claims about the threads of one step (checked under SpecThreads).       *)
(***************************************************************************)

\* the compacted index of the point t
CompactedIndex(t) ==
    (t[1] - 1) + (params.n_x - 2) * ((t[2] - 1) + (params.n_y - 2) * (t[3] - 1))

\* C22: for every point compute_variation_kernel does not skip, the index
\* (i-1) + (nx-2)*((j-1) + (ny-2)*(k-1)) it writes lies in [0, interiorCount),
\* the element count of the variation buffer; distinct points get distinct
\* indices; and every index in [0, interiorCount) is written in every step.
C22_CompactedVariationIndex ==
    LET active == ActiveThreads(mtl.params)
        interiorCount == Cardinality(DOMAIN mtl.variation)
    IN  /\ \A t \in active :
               /\ CompactedIndex(t) \in 0..(interiorCount - 1)
               /\ {w[1] : w \in compute_variation_kernel(mtl[gpu.currentBuffer],
                                   mtl.params, f, t).variation} = {CompactedIndex(t)}
        /\ \A t, u \in active : t # u => CompactedIndex(t) # CompactedIndex(u)
        /\ gpu.pc = "variation" => ~gpu.twice
        /\ gpu.pc = "retired" =>
               /\ gpu.written = 0..(interiorCount - 1)
               /\ ~gpu.twice

\* the variation dispatch has retired after threads of more than one row of
\* the grid have written
C22_Witness ==
    /\ gpu.pc = "retired"
    /\ \E t, u \in gpu.ran : t[1] # u[1] /\ t[2] # u[2]
    /\ Cardinality(gpu.written) = Cardinality(gpu.ran)


\* the buffer in the next role once every thread of the update dispatch has
\* stored, computed from the buffer in the current role
UpdatedNext ==
    ThreadWrites(Zeros(getNtot(params)),
                 UpdateWrites(mtl[gpu.currentBuffer], mtl.params, f))

\* C23: within one update dispatch every new value is computed only from the
\* buffer in the current role, which no thread of the dispatch writes; no two
\* threads write the same element of next; so next after the dispatch is the
\* same for every order of the threads.  Within one host sweep likewise: the
\* field read and the field written are two vectors, and no two points of the
\* sweep store to the same element.
C23_UpdateRaceFree ==
    /\ [](gpu.currentBuffer # gpu.nextBuffer)
    /\ [][mtl'[gpu.currentBuffer] = mtl[gpu.currentBuffer]]_vars
    /\ [](~gpu.twice)
    /\ [](gpu.pc # "update" => mtl[gpu.nextBuffer] = UpdatedNext)
    /\ [](LET o == HeatEquation(params, 1, 2)
          IN  /\ o.U_current.data # o.U_next.data
              /\ \A t, u \in HostInterior :
                     t # u => Index(o.U_next, t[1], t[2], t[3])
                                  # Index(o.U_next, u[1], u[2], u[3]))

\* an update dispatch of several threads has retired
C23_Witness ==
    /\ gpu.pc = "variation"
    /\ gpu.ran = {}
    /\ Cardinality(ActiveThreads(mtl.params)) >= 2
    /\ mtl[gpu.nextBuffer] # Zeros(getNtot(params))


(***************************************************************************)
(* Claims about the simulation time (checked under SpecTime).              *)
(***************************************************************************)

\* the time is n * dt during the n-th step and is advanced once per step,
\* after the step's computation
TimeIsStepTimesDt ==
    /\ cpu.current_time = cpu.iter * params.dt
    /\ (cpu.pc = "computed" /\ cpu.path = "host")
       => cpu.force_time = <<cpu.iter * params.dt>>

\* C26 as stated: during the n-th step the host evaluates the force with
\* t = n * dt, and on the device path the current_time field of the packed
\* parameters equals that same host time; the time is advanced by dt once
\* per step, after the step's computation.
C26_ForceTermTimeEqual ==
    /\ TimeIsStepTimesDt
    /\ (cpu.pc = "computed" /\ cpu.path = "device")
       => cpu.packed = cpu.iter * params.dt

\* C26, amended: on the device path the current_time field of the packed
\* parameters, and the time the kernels evaluate the force with, is the host
\* time n * dt converted to single precision.
C26_ForceTermTime ==
    /\ TimeIsStepTimesDt
    /\ (cpu.pc = "computed" /\ cpu.path = "device")
       => /\ cpu.packed = ToFloat(cpu.iter * params.dt)
          /\ cpu.force_time = <<cpu.packed>>

\* a later step of the device path whose packed time is not the host time
C26_Witness ==
    /\ cpu.path = "device"
    /\ cpu.pc = "computed"
    /\ cpu.iter >= 1
    /\ cpu.packed # cpu.current_time


(***************************************************************************)
(* Claims about the steps of the host loop (checked under SpecHost).       *)
(***************************************************************************)
\* dt * (laplacian + force) at the point t of the current field, at the
\* current time
VariationAt(t) ==
    LocalVariation(heap, params, f, cpu.U_current, cpu.current_time,
                   t[1], t[2], t[3])

\* the sum of |dt * (laplacian + force)| over the first n interior points of
\* the loop order
RECURSIVE SumOfVariations(_)
SumOfVariations(n) ==
    IF n = 0 THEN 0
    ELSE SumOfVariations(n - 1) + Abs(VariationAt(SweepPoint(params, n - 1)))

\* an iteration of the loop of solve(), seen from outside
IterationEffect ==
    /\ cpu'.current_time = cpu'.iter * params.dt
    /\ \A t \in HostInterior :
          Read(heap', cpu'.U_current, t[1], t[2], t[3]) =
              Read(heap, cpu.U_current, t[1], t[2], t[3]) + VariationAt(t)
    /\ \A t \in Points(cpu.U_current) :
          Read(heap', cpu'.U_next, t[1], t[2], t[3]) =
              Read(heap, cpu.U_current, t[1], t[2], t[3])
    /\ cpu'.variation = SumOfVariations(SweepCount(params))

BuffersAllocated == gpu.stage \in {"BuffersReady", "FieldInitialized"}

\* a compute_timestep, seen from outside: the two names are exchanged, the
\* buffer the update read keeps every element, and no element moves between
\* the two buffers other than by the update's writes to the next buffer
PingPongEffect ==
    /\ gpu'.currentBuffer = gpu.nextBuffer
    /\ gpu'.nextBuffer = gpu.currentBuffer
    /\ mtl'[gpu.currentBuffer] = mtl[gpu.currentBuffer]
    /\ mtl'[gpu.nextBuffer] \in
          DispatchOutcomes(mtl[gpu.nextBuffer],
                           UpdateWrites(mtl[gpu.currentBuffer], mtl'.params, f))

\* C28: from setupBuffers on, currentBuffer and nextBuffer are the two
\* distinct state buffers it allocated; each compute_timestep exchanges them
\* once and copies no element, so that after n steps currentBuffer is the
\* original current buffer exactly when n is even, and the update dispatch
\* never reads the buffer it writes.
C28_DevicePingPong ==
    /\ [](BuffersAllocated =>
             /\ {gpu.currentBuffer, gpu.nextBuffer} = {"state0", "state1"}
             /\ gpu.currentBuffer # gpu.nextBuffer
             /\ (gpu.currentBuffer = "state0") <=> (gpu.calls % 2 = 0))
    /\ [][gpu'.calls = gpu.calls + 1 => PingPongEffect]_vars

\* two steps have run and the two buffers differ in content
C28_Witness ==
    /\ BuffersAllocated
    /\ gpu.calls >= 2
    /\ gpu.currentBuffer = "state0"
    /\ mtl.state0 # mtl.state1


(***************************************************************************)
(* Claims about the offsets of the reduction dispatch (checked under       *)
(* SpecReduce).                                                            *)
(***************************************************************************)
\* the offsets of the partial-sum buffer that the reduction dispatch writes
ResultOffsets ==
    {w[1] : w \in ReduceWrites(red.variation, red.total_elements)}

\* C29: every offset the reduction kernel reads or writes lies inside the
\* allocated size: the variation buffer holds the interior count, the
\* partial-sum buffer ceil(interiorCount / 256) and the scratch array 256.
C29_BoundsSafety ==
    LET n == red.total_elements
    IN  red.pc = "summed" =>
        /\ \A grp \in 0..(num_groups(n) - 1) :
              LET tpt == ThreadsPerThreadgroup(n, grp)
              IN  /\ tpt <= threads_per_group
                  /\ grp * threads_per_group + tpt - 1 < n
        /\ \A o \in ResultOffsets : o < num_groups(n)


(***************************************************************************)
(* Claims about the host fields of the device path (checked under          *)
(* SpecDevice).                                                            *)
(***************************************************************************)
\* the values get_solution() returns: the storage of U_current
HostMirror == heap[gpu.U_current.data]

\* the read-back at the end of initializeSolutionGPU
ReadBack == gpu.stage = "BuffersReady" /\ gpu'.stage = "FieldInitialized"

\* C30: on the device path compute_timestep never writes the host fields
\* U_current and U_next, so get_solution() returns, after any number of
\* steps, the values read back from the initialization dispatch.
C30_HostMirrorFrame ==
    /\ [][ReadBack =>
             \A i \in DOMAIN heap'[gpu'.U_current.data] :
                 heap'[gpu'.U_current.data][i] = mtl'[gpu'.currentBuffer][i]]_vars
    /\ [][Constructed =>
             /\ heap' = heap
             /\ heap'[gpu'.U_current.data] = HostMirror]_vars

\* a step has changed the device field and the host field is not zero
C30_Witness ==
    /\ Constructed
    /\ gpu.calls >= 1
    /\ mtl[gpu.currentBuffer] # HostMirror
    /\ HostMirror # Zeros(getNtot(params))

=============================================================================
